---- MODULE Spec2Model ----
(***************************************************************************)
(* SnapFlow-Core: the discovery stage's make_bracket mode, the gateway,    *)
(* the finalize stage and the shared library, as state machines            *)
(* translated from                                                         *)
(*   src/packages/snapflow/discovery/__main__.py                           *)
(*   src/packages/snapflow/gateway/__main__.py                             *)
(*   src/packages/snapflow/finalize/__main__.py                            *)
(*   src/lib/shared/config/credentials.py                                  *)
(*   src/lib/shared/config/constants.py                                    *)
(*   src/lib/shared/utils/file_utils.py                                    *)
(*   src/lib/shared/notifications/webhook_notifier.py                      *)
(***************************************************************************)
EXTENDS Integers, Sequences, FiniteSets, TLC

VARIABLES
    data,             \* discovery: the make_bracket request (aggregated_metadata, time_delta_seconds)
    all_metadata,     \* discovery: _handle_make_bracket_mode's flattened record list
    time_delta,       \* discovery: <<seconds>> once the effective time-delta is computed, else <<>>
    brackets,         \* discovery: result of _group_files_by_bracket (before the chronological sort)
    response,         \* discovery: the response main returned, statusCode 0 while none
    event,            \* finalize: the invocation's event (top-level fields and body envelope)
    event_data,       \* finalize: the fields main reads, after the envelope is parsed
    fin_pc,           \* finalize: main's position
    notifier,         \* finalize: "none", or the notification level of the constructed notifier
    callbacks,        \* finalize: job results posted to the callback URL by send_business
    debug_posts,      \* finalize: statuses of the debug notifications posted by send_debug
    pending_retries,  \* finalize: tickets the current pass walks over
    still_pending,    \* finalize: tickets found in progress during the current pass
    completed_enhancements, \* finalize: result records, in the order they were produced
    retry_count,      \* finalize: retry_count of the retry loop
    idx,              \* finalize: position of the for loop inside pending_retries
    fin_response,     \* finalize: the response main returned, statusCode 0 while none
    passes,           \* finalize (history): passes over the pending set begun so far
    polls,            \* finalize (history): per input ticket, status checks made and last outcome
    gw_event,         \* gateway: the invocation's event (format, fields) and environment
    gw_pc,            \* gateway: main's position
    gw_response,      \* gateway: the response main returned, statusCode 0 while none
    job_id,           \* gateway: the job id main generated, "" while none
    decrypted_data,   \* gateway: main's decrypted_data dictionary
    process_payload,  \* gateway: main's process_payload dictionary
    thread_pc,        \* gateway: position of the dispatch thread, "none" while not started
    thread_payload,   \* gateway: the payload dictionary _dispatch_async holds
    http_posts,       \* gateway: the POSTs the dispatch thread made, in order
    cred_data,        \* credentials: the dictionary given to decrypt_credentials
    cred_result,      \* credentials: what decrypt_credentials returned (or that it raised)
    cred_masked,      \* credentials: mask_credentials of the decrypted dictionary
    util_call,        \* file_utils: the call made (function name and arguments)
    util_result,      \* file_utils: the value it returned
    self_notifier,    \* notifier: the object's callback_webhook and notification_level
    notifier_call,    \* notifier: the method called on it, with its arguments
    notifier_posts,   \* notifier: the requests.post calls it made, in order
    proc_event,       \* process: the invocation's event and what the providers will answer
    proc_pc,          \* process: main's position
    proc_response,    \* process: the response main returned, statusCode 0 while none
    proc_posts,       \* process: the notifications posted to the callback URL, in order
    proc_calls,       \* process: provider and finalize calls made, in order
    enhancement_ids,  \* process: main's enhancement_ids list
    bracket_idx,      \* process: index of the next bracket of the loop
    proc_counts,      \* process: files_processed, files_uploaded, brackets_processed
    page_event,       \* discovery: the process_page request
    page_pc,          \* discovery: position of main in process_page mode
    page_files,       \* discovery: all_files[start_idx:end_idx]
    futures,          \* discovery: per submitted file, the state of its worker call
    extracted_metadata, \* discovery: positions of the page's files whose metadata was kept
    page_response     \* discovery: the response of the page invocation, statusCode 0 while none

disc_vars == <<data, all_metadata, time_delta, brackets, response>>

fin_vars == <<event, event_data, fin_pc, notifier, callbacks, debug_posts, pending_retries,
              still_pending, completed_enhancements, retry_count, idx, fin_response,
              passes, polls>>

gw_vars == <<gw_event, gw_pc, gw_response, job_id, decrypted_data, process_payload,
             thread_pc, thread_payload, http_posts>>

cred_vars == <<cred_data, cred_result, cred_masked>>

util_vars == <<util_call, util_result>>

notifier_vars == <<self_notifier, notifier_call, notifier_posts>>

lib_vars == <<cred_data, cred_result, cred_masked, util_call, util_result,
              self_notifier, notifier_call, notifier_posts>>

proc_vars == <<proc_event, proc_pc, proc_response, proc_posts, proc_calls, enhancement_ids,
               bracket_idx, proc_counts>>

page_vars == <<page_event, page_pc, page_files, futures, extracted_metadata, page_response>>

\* what is modelled after the process stage
after_proc_vars == <<page_vars>>

\* the stages modelled after the gateway and the library
ext_vars == <<proc_vars, after_proc_vars>>

vars == <<data, all_metadata, time_delta, brackets, response,
          event, event_data, fin_pc, notifier, callbacks, debug_posts, pending_retries,
          still_pending, completed_enhancements, retry_count, idx, fin_response,
          passes, polls,
          gw_event, gw_pc, gw_response, job_id, decrypted_data, process_payload,
          thread_pc, thread_payload, http_posts,
          cred_data, cred_result, cred_masked, util_call, util_result,
          self_notifier, notifier_call, notifier_posts,
          proc_event, proc_pc, proc_response, proc_posts, proc_calls, enhancement_ids,
          bracket_idx, proc_counts,
          page_event, page_pc, page_files, futures, extracted_metadata, page_response>>

(***************************************************************************)
(* Bounds of the model.                                                    *)
(***************************************************************************)
MaxFiles == 3
MaxTickets == 2
MaxPathLen == 4
MaxTail == 3
MaxBrackets == 2
MaxBracketFiles == 2
MaxPageFiles == 2

(***************************************************************************)
(* Strings the code inspects character by character are sequences of       *)
(* one-character strings.                                                  *)
(***************************************************************************)
LowerLetters == <<"d", "j", "i", "n", "g", "p">>
UpperLetters == <<"D", "J", "I", "N", "G", "P">>

Letters == {"D", "J", "I", "N", "G", "P", "d", "j", "i", "n", "g", "p", "_", ".", "1", "2", "3"}

upper_char ==
    [c \in Letters |->
        IF \E k \in 1..Len(LowerLetters) : LowerLetters[k] = c
        THEN UpperLetters[CHOOSE k \in 1..Len(LowerLetters) : LowerLetters[k] = c]
        ELSE c]

lower_char ==
    [c \in Letters |->
        IF \E k \in 1..Len(UpperLetters) : UpperLetters[k] = c
        THEN LowerLetters[CHOOSE k \in 1..Len(UpperLetters) : UpperLetters[k] = c]
        ELSE c]

upper(s) == [k \in 1..Len(s) |-> upper_char[s[k]]]
lower(s) == [k \in 1..Len(s) |-> lower_char[s[k]]]

startswith(s, p) == Len(s) >= Len(p) /\ SubSeq(s, 1, Len(p)) = p
endswith(s, p) == Len(s) >= Len(p) /\ SubSeq(s, Len(s) - Len(p) + 1, Len(s)) = p

\* display names a request may carry
NameDji      == <<"D", "J", "I", "_", "1", ".", "d", "n", "g">>
NameDjiMixed == <<"d", "j", "i", "_", "2", ".", "D", "N", "G">>
NameDjiJpg   == <<"D", "J", "I", "_", "3", ".", "j", "p", "g">>
Names == {NameDji, NameDjiMixed, NameDjiJpg}

(***************************************************************************)
(* Capture timestamps.  A date_taken value is an ISO-8601 string; the code *)
(* uses it twice: as a string (sort key, min) and parsed by                *)
(* datetime.fromisoformat.  fmt "T" is "2024-01-01T00:00:SS" (what         *)
(* process_page emits), fmt "sp" is "2024-01-01 00:00:SS" (blank           *)
(* separator, equally accepted by fromisoformat), fmt "bad" is a string    *)
(* fromisoformat rejects, fmt "missing" is a record without the            *)
(* date_taken key.  t is the time in seconds.                              *)
(***************************************************************************)
CaptureTimes == {0, 2, 13}

Stamps ==
    [fmt : {"T"}, t : CaptureTimes]
        \cup {[fmt |-> "sp", t |-> 13], [fmt |-> "bad", t |-> 0], [fmt |-> "missing", t |-> 0]}

has_date_taken(f) == f.date_taken.fmt # "missing"

\* datetime.fromisoformat: the strings it accepts, and the instant it returns
fromisoformat_ok(s) == s.fmt \in {"T", "sp"}
fromisoformat(s) == s.t

\* Python's ordering of the strings: the first ten characters (the date)
\* agree, then " " < "T", then the time of day; "9999-12-31" and a string
\* that is no date sort after both.
str_key(s) ==
    CASE s.fmt = "sp" -> <<0, s.t>>
      [] s.fmt = "T"  -> <<1, s.t>>
      [] OTHER        -> <<3, 0>>

DefaultEarliest == <<2, 0>>

key_le(a, b) == a[1] < b[1] \/ (a[1] = b[1] /\ a[2] <= b[2])
key_lt(a, b) == ~ key_le(b, a)

\* sorted(items, key=...): stable, ascending; pairs are <<key, item>>
RECURSIVE sorted_pairs(_)
insert_pair(s, p) ==
    LET pos == IF \E k \in 1..Len(s) : key_lt(p[1], s[k][1])
               THEN CHOOSE k \in 1..Len(s) :
                        /\ key_lt(p[1], s[k][1])
                        /\ \A j \in 1..(k - 1) : ~ key_lt(p[1], s[j][1])
               ELSE Len(s) + 1
    IN  SubSeq(s, 1, pos - 1) \o <<p>> \o SubSeq(s, pos, Len(s))
sorted_pairs(ps) ==
    IF ps = <<>> THEN <<>>
    ELSE insert_pair(sorted_pairs(SubSeq(ps, 1, Len(ps) - 1)), ps[Len(ps)])

sorted_by(items, keys) ==
    LET ps == sorted_pairs([k \in 1..Len(items) |-> <<keys[k], items[k]>>])
    IN  [k \in 1..Len(ps) |-> ps[k][2]]

(***************************************************************************)
(* _detect_dji_file and _get_time_delta_with_dji_override                  *)
(***************************************************************************)
DEFAULT_TIME_DELTA_SECONDS == 2
DJI_TIME_DELTA == 10

detect_dji_file(filename) ==
    /\ startswith(upper(filename), <<"D", "J", "I", "_">>)
    /\ endswith(lower(filename), <<".", "d", "n", "g">>)

\* the request's time_delta_seconds: absent (None), a number, a numeric
\* string ("0"), a value float() rejects (ValueError or TypeError)
TimeDeltaInputs ==
    {[kind |-> "none", val |-> 0], [kind |-> "num", val |-> 1],
     [kind |-> "num", val |-> 10], [kind |-> "numstr", val |-> 0],
     [kind |-> "str", val |-> 0]}

float_ok(x) == x.kind \in {"num", "numstr"}

count_dji(files) == Cardinality({k \in 1..Len(files) : detect_dji_file(files[k].name)})

\* variant: the override also fires at exactly one half (dji_ratio >= 0.5)
get_time_delta_at_half(time_delta_seconds, metadata_files) ==
    LET requested_seconds ==
            IF time_delta_seconds.kind = "none" THEN DEFAULT_TIME_DELTA_SECONDS
            ELSE IF float_ok(time_delta_seconds) THEN time_delta_seconds.val
            ELSE DEFAULT_TIME_DELTA_SECONDS
        dji_count   == count_dji(metadata_files)
        total_files == Len(metadata_files)
    IN  IF total_files > 0 /\ 2 * dji_count >= total_files
        THEN DJI_TIME_DELTA ELSE requested_seconds

get_time_delta_with_dji_override(time_delta_seconds, metadata_files) ==
    LET requested_seconds ==
            IF time_delta_seconds.kind = "none" THEN DEFAULT_TIME_DELTA_SECONDS
            ELSE IF float_ok(time_delta_seconds) THEN time_delta_seconds.val
            ELSE DEFAULT_TIME_DELTA_SECONDS
        dji_count   == count_dji(metadata_files)
        total_files == Len(metadata_files)
        \* dji_ratio > 0.5 with dji_ratio = dji_count / total_files, 0 when empty
        majority    == total_files > 0 /\ 2 * dji_count > total_files
    IN  IF majority THEN DJI_TIME_DELTA ELSE requested_seconds

(***************************************************************************)
(* _group_files_by_bracket                                                 *)
(***************************************************************************)
bracket_output(current_bracket) ==
    [k \in 1..Len(current_bracket) |->
        [name |-> current_bracket[k].name, path_lower |-> current_bracket[k].path_lower]]

\* the function raises: KeyError in the sort key (no date_taken), or
\* ValueError from fromisoformat, which every file of the loop goes through
group_raises(files) ==
    \E k \in 1..Len(files) :
        ~ has_date_taken(files[k]) \/ ~ fromisoformat_ok(files[k].date_taken)

\* variant: the file that closes a bracket does not open the next one
RECURSIVE group_loop_drop(_, _, _, _, _)
group_loop_drop(sorted_files, i, bs, current_bracket, delta) ==
    IF i > Len(sorted_files)
    THEN IF current_bracket # <<>> THEN Append(bs, bracket_output(current_bracket)) ELSE bs
    ELSE LET file == sorted_files[i]
             current_time == fromisoformat(file.date_taken)
         IN  IF current_bracket = <<>>
             THEN group_loop_drop(sorted_files, i + 1, bs, <<file>>, delta)
             ELSE LET last_time == fromisoformat(current_bracket[Len(current_bracket)].date_taken)
                      time_gap  == current_time - last_time
                  IN  IF time_gap <= delta
                      THEN group_loop_drop(sorted_files, i + 1, bs,
                                           Append(current_bracket, file), delta)
                      ELSE group_loop_drop(sorted_files, i + 1,
                                           Append(bs, bracket_output(current_bracket)), <<>>, delta)

RECURSIVE group_loop(_, _, _, _, _)
group_loop(sorted_files, i, bs, current_bracket, delta) ==
    IF i > Len(sorted_files)
    THEN IF current_bracket # <<>> THEN Append(bs, bracket_output(current_bracket)) ELSE bs
    ELSE LET file == sorted_files[i]
             current_time == fromisoformat(file.date_taken)
         IN  IF current_bracket = <<>>
             THEN group_loop(sorted_files, i + 1, bs, <<file>>, delta)
             ELSE LET last_time == fromisoformat(current_bracket[Len(current_bracket)].date_taken)
                      time_gap  == current_time - last_time
                  IN  IF time_gap <= delta
                      THEN group_loop(sorted_files, i + 1, bs, Append(current_bracket, file), delta)
                      ELSE group_loop(sorted_files, i + 1,
                                      Append(bs, bracket_output(current_bracket)), <<file>>, delta)

\* variant: the walk runs over the files in request order, without the sort
group_files_unsorted(files, delta) ==
    IF files = <<>> THEN <<>> ELSE group_loop(files, 1, <<>>, <<>>, delta)

group_files_by_bracket(files, delta) ==
    IF files = <<>> THEN <<>>
    ELSE LET sorted_files ==
                 sorted_by(files, [k \in 1..Len(files) |-> str_key(files[k].date_taken)])
         IN  group_loop(sorted_files, 1, <<>>, <<>>, delta)

(***************************************************************************)
(* _sort_brackets_chronologically                                          *)
(***************************************************************************)
\* {f['name']: f['date_taken'] for f in all_metadata}: the last record of a
\* name wins
metadata_lookup(all_md, name) ==
    all_md[CHOOSE k \in 1..Len(all_md) :
               /\ all_md[k].name = name
               /\ \A j \in (k + 1)..Len(all_md) : all_md[j].name # name].date_taken

key_min(S) == CHOOSE a \in S : \A b \in S : key_le(a, b)

get_earliest_time(all_md, bracket) ==
    LET times == {IF \E k \in 1..Len(all_md) : all_md[k].name = bracket[i].name
                  THEN str_key(metadata_lookup(all_md, bracket[i].name))
                  ELSE DefaultEarliest : i \in 1..Len(bracket)}
    IN  IF times # {} THEN key_min(times) ELSE DefaultEarliest

sort_brackets_chronologically(bs, all_md) ==
    IF bs = <<>> \/ all_md = <<>> THEN bs
    ELSE sorted_by(bs, [k \in 1..Len(bs) |-> get_earliest_time(all_md, bs[k])])

(***************************************************************************)
(* _handle_make_bracket_mode and main (mode make_bracket)                  *)
(***************************************************************************)
\* an element of aggregated_metadata: a record (dict) or a list of records
DictItem(r) == [is_list |-> FALSE, recs |-> <<r>>]
ListItem(rs) == [is_list |-> TRUE, recs |-> rs]

RECURSIVE flatten_items(_)
flatten_items(items) ==
    IF items = <<>> THEN <<>>
    ELSE items[1].recs \o flatten_items(Tail(items))

flatten(aggregated_metadata) ==
    IF Len(aggregated_metadata) = 1 /\ aggregated_metadata[1].is_list
    THEN aggregated_metadata[1].recs
    ELSE flatten_items(aggregated_metadata)

\* keys: the keys of the JSON body.  The body of the 200 answer of
\* make_bracket is the list of brackets itself; the body of the 500 answer
\* is {error, version, correlation_id}
NoResponse == [statusCode |-> 0, body |-> <<>>, error |-> "none", keys |-> {}]
Ok(body) == [statusCode |-> 200, body |-> body, error |-> "none", keys |-> {}]
Err(msg) ==
    [statusCode |-> 500, body |-> <<>>, error |-> msg,
     keys |-> {"error", "version", "correlation_id"}]

\* the request shapes: records at the top level, one list holding all of
\* them, one list per page
Shapes == {"flat", "double", "pages"}

shape_records(rs, shape) ==
    CASE shape = "flat"   -> [k \in 1..Len(rs) |-> DictItem(rs[k])]
      [] shape = "double" -> <<ListItem(rs)>>
      [] OTHER            -> IF Len(rs) = 0 THEN <<ListItem(<<>>), ListItem(<<>>)>>
                             ELSE <<ListItem(SubSeq(rs, 1, 1)), ListItem(SubSeq(rs, 2, Len(rs)))>>

NoRequest == [aggregated_metadata |-> <<>>, time_delta_seconds |-> [kind |-> "none", val |-> 0]]

DiscIdle ==
    /\ data = NoRequest
    /\ all_metadata = <<>>
    /\ time_delta = <<>>
    /\ brackets = <<>>
    /\ response = NoResponse

\* the body of main for one make_bracket request
make_bracket_request(req) ==
    /\ data' = req
    /\ LET aggregated_metadata == req.aggregated_metadata
           flat == flatten(aggregated_metadata)
           delta == get_time_delta_with_dji_override(req.time_delta_seconds, flat)
           grouped == group_files_by_bracket(flat, delta)
       IN  IF aggregated_metadata = <<>>
           THEN /\ response' = Err("Missing aggregated_metadata")
                /\ UNCHANGED <<all_metadata, time_delta, brackets>>
           ELSE IF flat = <<>>
           THEN /\ response' = Err("No metadata found after flattening")
                /\ UNCHANGED <<all_metadata, time_delta, brackets>>
           ELSE IF ~ has_date_taken(flat[1])
           THEN /\ all_metadata' = flat
                /\ response' = Err("date_taken field missing")
                /\ UNCHANGED <<time_delta, brackets>>
           ELSE IF group_raises(flat)
           THEN /\ all_metadata' = flat
                /\ time_delta' = <<delta>>
                /\ response' = Err("Invalid isoformat string")
                /\ UNCHANGED brackets
           ELSE /\ all_metadata' = flat
                /\ time_delta' = <<delta>>
                /\ brackets' = grouped
                /\ response' = Ok(sort_brackets_chronologically(grouped, flat))

\* main with mode make_bracket: one request arrives and is answered.  Every
\* time_delta_seconds is tried on records at the top level; the nested request
\* shapes are tried with time_delta_seconds absent.
main_make_bracket ==
    /\ response = NoResponse
    /\ \E n \in 0..MaxFiles :
         \E nm \in [1..n -> Names], st \in [1..n -> Stamps], shape \in Shapes :
           \E tds \in (IF shape = "flat" THEN TimeDeltaInputs
                                         ELSE {[kind |-> "none", val |-> 0]}) :
             make_bracket_request(
                 [aggregated_metadata |->
                      shape_records([k \in 1..n |->
                          [name |-> nm[k], path_lower |-> k, date_taken |-> st[k]]], shape),
                  time_delta_seconds |-> tds])

(***************************************************************************)
(* Dictionaries are functions from keys to values; the values are strings  *)
(* (NoneValue for None), except under the two keys that hold a nested      *)
(* credential bundle, whose value is again a dictionary.                   *)
(***************************************************************************)
NoneValue == "<None>"
EmptyDict == [k \in {} |-> ""]
truthy(v) == v # "" /\ v # NoneValue
get(d, k) == IF k \in DOMAIN d THEN d[k] ELSE NoneValue
pop(d, k) == [x \in DOMAIN d \ {k} |-> d[x]]
put(d, k, v) == [x \in DOMAIN d \cup {k} |-> IF x = k THEN v ELSE d[x]]
update(d, e) == [x \in DOMAIN d \cup DOMAIN e |-> IF x \in DOMAIN e THEN e[x] ELSE d[x]]
RECURSIVE pop_all(_, _)
pop_all(d, ks) ==
    IF ks = <<>> THEN d ELSE pop_all(pop(d, Head(ks)), Tail(ks))
SeqToSet(s) == {s[k] : k \in 1..Len(s)}

(***************************************************************************)
(* Credentials (src/lib/shared/config/credentials.py).                     *)
(***************************************************************************)
\* the characters of the strings mask_credentials slices
Text ==
    "app-key-123" :> <<"a", "p", "p", "-", "k", "e", "y", "-", "1", "2", "3">> @@
    "app-...-123" :> <<"a", "p", "p", "-", ".", ".", ".", "-", "1", "2", "3">> @@
    "app-secret-456" :> <<"a", "p", "p", "-", "s", "e", "c", "r", "e", "t", "-", "4", "5", "6">> @@
    "app-...-456" :> <<"a", "p", "p", "-", ".", ".", ".", "-", "4", "5", "6">> @@
    "refresh-token-789" :> <<"r", "e", "f", "r", "e", "s", "h", "-", "t", "o", "k", "e", "n", "-", "7", "8", "9">> @@
    "refr...-789" :> <<"r", "e", "f", "r", ".", ".", ".", "-", "7", "8", "9">> @@
    "client-id-000" :> <<"c", "l", "i", "e", "n", "t", "-", "i", "d", "-", "0", "0", "0">> @@
    "clie...-000" :> <<"c", "l", "i", "e", ".", ".", ".", "-", "0", "0", "0">> @@
    "client-secret-111" :> <<"c", "l", "i", "e", "n", "t", "-", "s", "e", "c", "r", "e", "t", "-", "1", "1", "1">> @@
    "clie...-111" :> <<"c", "l", "i", "e", ".", ".", ".", "-", "1", "1", "1">> @@
    "fotello-key-abc" :> <<"f", "o", "t", "e", "l", "l", "o", "-", "k", "e", "y", "-", "a", "b", "c">> @@
    "fote...-abc" :> <<"f", "o", "t", "e", ".", ".", ".", "-", "a", "b", "c">> @@
    "key-12" :> <<"k", "e", "y", "-", "1", "2">> @@
    "***" :> <<"*", "*", "*">> @@
    "member-1" :> <<"m", "e", "m", "b", "e", "r", "-", "1">> @@
    "a@b.c" :> <<"a", "@", "b", ".", "c">> @@
    "not-encrypted" :> <<"n", "o", "t", "-", "e", "n", "c", "r", "y", "p", "t", "e", "d">> @@
    "not-...pted" :> <<"n", "o", "t", "-", ".", ".", ".", "p", "t", "e", "d">>

FromChars(cs) == CHOOSE s \in DOMAIN Text : Text[s] = cs

\* Fernet.decrypt: the tokens encrypted under the client's key, with their
\* plaintexts; any other value makes it raise
fernet_plaintext ==
    "gAAAA:app-key" :> "app-key-123" @@
    "gAAAA:app-secret" :> "app-secret-456" @@
    "gAAAA:refresh-token" :> "refresh-token-789" @@
    "gAAAA:client-id" :> "client-id-000" @@
    "gAAAA:client-secret" :> "client-secret-111" @@
    "gAAAA:fotello-key" :> "fotello-key-abc" @@
    "gAAAA:short-key" :> "key-12"

fernet_decrypt_raises(value) == value \notin DOMAIN fernet_plaintext
fernet_decrypt(value) == fernet_plaintext[value]

\* _decrypt_legacy_format: all_encrypted_fields
all_encrypted_fields ==
    "dropbox_app_key_encrypted" :> "dropbox_app_key" @@
    "dropbox_app_secret_encrypted" :> "dropbox_app_secret" @@
    "dropbox_refresh_token_encrypted" :> "dropbox_refresh_token" @@
    "google_drive_client_id_encrypted" :> "google_drive_client_id" @@
    "google_drive_client_secret_encrypted" :> "google_drive_client_secret" @@
    "google_drive_refresh_token_encrypted" :> "google_drive_refresh_token" @@
    "fotello_api_key_encrypted" :> "fotello_api_key" @@
    "autohdr_api_key_encrypted" :> "autohdr_api_key"

\* key.replace('_encrypted', '') on the keys of the model that contain
\* '_encrypted'; in all of them it is the suffix, so key.endswith('_encrypted')
\* holds exactly on the domain
replace_encrypted ==
    all_encrypted_fields @@
    "app_key_encrypted" :> "app_key" @@
    "app_secret_encrypted" :> "app_secret" @@
    "refresh_token_encrypted" :> "refresh_token" @@
    "client_id_encrypted" :> "client_id" @@
    "client_secret_encrypted" :> "client_secret" @@
    "api_key_encrypted" :> "api_key"

endswith_encrypted(key) == key \in DOMAIN replace_encrypted

NestedKeys == {"storage_credentials", "enhancement_credentials"}

Raised == [called |-> TRUE, raised |-> TRUE, value |-> EmptyDict]
Returned(d) == [called |-> TRUE, raised |-> FALSE, value |-> d]

\* _decrypt_legacy_format
decrypt_legacy_format(data_) ==
    LET present == {f \in DOMAIN all_encrypted_fields : f \in DOMAIN data_ /\ truthy(data_[f])}
        renamed == {all_encrypted_fields[f] : f \in present}
    IN  IF \E f \in present : fernet_decrypt_raises(data_[f]) THEN Raised
        ELSE Returned(
                 [k \in (DOMAIN data_ \ present) \cup renamed |->
                     IF k \in renamed
                     THEN fernet_decrypt(data_[CHOOSE f \in present : all_encrypted_fields[f] = k])
                     ELSE data_[k]])

\* _decrypt_new_format: one credential bundle
decrypt_bundle_raises(creds) ==
    \E key \in DOMAIN creds :
        endswith_encrypted(key) /\ truthy(creds[key]) /\ fernet_decrypt_raises(creds[key])

decrypt_bundle(creds) ==
    LET encrypted == {key \in DOMAIN creds : endswith_encrypted(key) /\ truthy(creds[key])}
        renamed == {replace_encrypted[key] : key \in encrypted}
    IN  [k \in (DOMAIN creds \ encrypted) \cup renamed |->
            IF k \in renamed
            THEN fernet_decrypt(creds[CHOOSE key \in encrypted : replace_encrypted[key] = k])
            ELSE creds[k]]

\* _decrypt_new_format
decrypt_new_format(data_) ==
    LET nested == {n \in NestedKeys : n \in DOMAIN data_ /\ DOMAIN data_[n] # {}}
    IN  IF \E n \in nested : decrypt_bundle_raises(data_[n]) THEN Raised
        ELSE Returned([k \in DOMAIN data_ |->
                          IF k \in nested THEN decrypt_bundle(data_[k]) ELSE data_[k]])

\* decrypt_credentials; has_key: the client's encryption key is configured
decrypt_credentials(data_, has_key) ==
    IF ~ has_key THEN Raised
    ELSE IF \E n \in NestedKeys : n \in DOMAIN data_
    THEN decrypt_new_format(data_)
    ELSE decrypt_legacy_format(data_)

\* mask_credentials: sensitive_fields
sensitive_fields ==
    <<"dropbox_app_key", "dropbox_app_secret", "dropbox_refresh_token",
      "fotello_api_key", "autohdr_api_key",
      "google_drive_client_id", "google_drive_client_secret", "google_drive_refresh_token",
      "api_key", "access_token", "refresh_token", "client_secret">>

\* mask_credentials: the masked form of one value
mask_value(value) ==
    LET c == Text[value]
    IN  IF Len(c) > 8
        THEN FromChars(SubSeq(c, 1, 4) \o <<".", ".", ".">> \o SubSeq(c, Len(c) - 3, Len(c)))
        ELSE "***"

\* mask_credentials on a dictionary of strings
mask_flat(d) ==
    [k \in DOMAIN d |->
        IF k \in SeqToSet(sensitive_fields) /\ truthy(d[k]) THEN mask_value(d[k]) ELSE d[k]]

\* mask_credentials: the top level, then the nested bundles
mask_credentials(data_) ==
    LET top == DOMAIN data_ \ NestedKeys
    IN  [k \in DOMAIN data_ |->
            IF k \in NestedKeys THEN mask_flat(data_[k])
            ELSE mask_flat([x \in top |-> data_[x]])[k]]

\* the payloads given to decrypt_credentials.  Legacy: each encrypted field
\* absent or holding its token, dropbox_app_key_encrypted also empty or
\* holding a string that is no token.
LegacyToken ==
    "dropbox_app_key_encrypted" :> "gAAAA:app-key" @@
    "dropbox_app_secret_encrypted" :> "gAAAA:app-secret" @@
    "dropbox_refresh_token_encrypted" :> "gAAAA:refresh-token" @@
    "google_drive_client_id_encrypted" :> "gAAAA:client-id" @@
    "google_drive_client_secret_encrypted" :> "gAAAA:client-secret" @@
    "google_drive_refresh_token_encrypted" :> "gAAAA:refresh-token" @@
    "fotello_api_key_encrypted" :> "gAAAA:fotello-key" @@
    "autohdr_api_key_encrypted" :> "gAAAA:short-key"

PlainFields == "client_id" :> "001" @@ "other_field" :> "not-encrypted"

LegacyPayloads ==
    {update(update(PlainFields, [f \in fs |-> LegacyToken[f]]), k) :
        fs \in SUBSET (DOMAIN LegacyToken \ {"dropbox_app_key_encrypted"}),
        k \in {EmptyDict} \cup {"dropbox_app_key_encrypted" :> v :
                                   v \in {"gAAAA:app-key", "", "not-a-token"}}}

\* Nested: a storage bundle, an enhancement bundle, or both; a legacy field
\* may sit beside them
StorageBundles ==
    {"app_key_encrypted" :> "gAAAA:app-key" @@ "app_secret_encrypted" :> "gAAAA:app-secret" @@
         "refresh_token_encrypted" :> "gAAAA:refresh-token" @@ "member_id" :> "member-1",
     "client_id_encrypted" :> "gAAAA:client-id" @@
         "client_secret_encrypted" :> "gAAAA:client-secret" @@
         "refresh_token_encrypted" :> "gAAAA:refresh-token",
     "app_key_encrypted" :> "gAAAA:app-key" @@ "refresh_token_encrypted" :> "",
     "app_key_encrypted" :> "not-a-token",
     EmptyDict}

EnhancementBundles ==
    {"api_key_encrypted" :> "gAAAA:fotello-key",
     "api_key_encrypted" :> "gAAAA:short-key" @@ "email" :> "a@b.c",
     "api_key_encrypted" :> NoneValue}

NestedPayloads ==
    {update(update(PlainFields, n), l) :
        n \in {"storage_credentials" :> b : b \in StorageBundles}
              \cup {"enhancement_credentials" :> b : b \in EnhancementBundles}
              \cup {"storage_credentials" :> b @@ "enhancement_credentials" :> e :
                       b \in StorageBundles, e \in EnhancementBundles},
        l \in {EmptyDict, "fotello_api_key_encrypted" :> "gAAAA:fotello-key"}}

NotCalled == [called |-> FALSE, raised |-> FALSE, value |-> EmptyDict]
NotMasked == [masked |-> FALSE, value |-> EmptyDict]

CredIdle ==
    /\ cred_data = EmptyDict
    /\ cred_result = NotCalled
    /\ cred_masked = NotMasked

\* one call of decrypt_credentials, with or without a key configured for
\* the client
call_decrypt_credentials ==
    /\ ~ cred_result.called
    /\ \E d \in LegacyPayloads \cup NestedPayloads, has_key \in BOOLEAN :
         /\ cred_data' = d
         /\ cred_result' = decrypt_credentials(d, has_key)
    /\ UNCHANGED cred_masked
    /\ UNCHANGED <<disc_vars, fin_vars, gw_vars, util_vars, notifier_vars, ext_vars>>

\* mask_credentials on the dictionary decrypt_credentials returned
call_mask_credentials ==
    /\ cred_result.called /\ ~ cred_result.raised /\ ~ cred_masked.masked
    /\ cred_masked' = [masked |-> TRUE, value |-> mask_credentials(cred_result.value)]
    /\ UNCHANGED <<cred_data, cred_result>>
    /\ UNCHANGED <<disc_vars, fin_vars, gw_vars, util_vars, notifier_vars, ext_vars>>

(***************************************************************************)
(* File utilities (src/lib/shared/utils/file_utils.py) and the file type   *)
(* table (src/lib/shared/config/constants.py).  Paths, prefixes and        *)
(* filenames are sequences of one-character strings.                       *)
(***************************************************************************)
\* str.lower on the characters of the model
Lowercase ==
    "A" :> "a" @@ "B" :> "b" @@ "C" :> "c" @@ "D" :> "d" @@ "E" :> "e" @@ "F" :> "f" @@ "G" :>
    "g" @@ "H" :> "h" @@ "I" :> "i" @@ "J" :> "j" @@ "K" :> "k" @@ "L" :> "l" @@ "M" :> "m" @@
    "N" :> "n" @@ "O" :> "o" @@ "P" :> "p" @@ "Q" :> "q" @@ "R" :> "r" @@ "S" :> "s" @@ "T" :>
    "t" @@ "U" :> "u" @@ "V" :> "v" @@ "W" :> "w" @@ "X" :> "x" @@ "Y" :> "y" @@ "Z" :> "z"

to_lower(s) == [k \in 1..Len(s) |-> IF s[k] \in DOMAIN Lowercase THEN Lowercase[s[k]] ELSE s[k]]

\* all sequences over an alphabet, of length at most n
RECURSIVE Strings(_, _)
Strings(alphabet, n) ==
    IF n = 0 THEN {<<>>}
    ELSE LET shorter == Strings(alphabet, n - 1)
         IN  shorter \cup {Append(s, c) : s \in {t \in shorter : Len(t) = n - 1}, c \in alphabet}

PathChars == {"/", "\\", "a", "A"}

\* str.replace(old, new) for a one-character old
RECURSIVE replace_char(_, _, _)
replace_char(s, old, new) ==
    IF s = <<>> THEN <<>>
    ELSE <<IF Head(s) = old THEN new ELSE Head(s)>> \o replace_char(Tail(s), old, new)

\* '//' in s
has_double_slash(s) == \E k \in 1..(Len(s) - 1) : s[k] = "/" /\ s[k + 1] = "/"

\* s.replace('//', '/'): one pass, left to right, over non-overlapping matches
RECURSIVE replace_double_slash(_)
replace_double_slash(s) ==
    IF Len(s) < 2 THEN s
    ELSE IF s[1] = "/" /\ s[2] = "/"
    THEN <<"/">> \o replace_double_slash(SubSeq(s, 3, Len(s)))
    ELSE <<s[1]>> \o replace_double_slash(Tail(s))

\* while '//' in normalized: normalized = normalized.replace('//', '/')
RECURSIVE remove_duplicate_slashes(_)
remove_duplicate_slashes(s) ==
    IF has_double_slash(s) THEN remove_duplicate_slashes(replace_double_slash(s)) ELSE s

\* variant: the duplicate slashes are replaced in one pass only
normalize_single_pass(path) ==
    IF path = <<>> THEN path
    ELSE LET slashed == replace_char(path, "\\", "/")
             led == IF slashed[1] # "/" THEN <<"/">> \o slashed ELSE slashed
             single == replace_double_slash(led)
             cut == IF Len(single) > 1 /\ single[Len(single)] = "/"
                    THEN SubSeq(single, 1, Len(single) - 1) ELSE single
         IN  to_lower(cut)

\* normalize_dropbox_path
normalize_dropbox_path(path) ==
    IF path = <<>> THEN path
    ELSE LET slashed == replace_char(path, "\\", "/")
             led == IF slashed[1] # "/" THEN <<"/">> \o slashed ELSE slashed
             single == remove_duplicate_slashes(led)
             cut == IF Len(single) > 1 /\ single[Len(single)] = "/"
                    THEN SubSeq(single, 1, Len(single) - 1) ELSE single
         IN  to_lower(cut)

\* the character classes of the regular expressions, on the characters of
\* the model: \w matches letters and digits of any script and the underscore
AsciiWordChars == {"a", "Z", "7"}
NonAsciiWordChars == {"é"}
WordChars == AsciiWordChars \cup NonAsciiWordChars \cup {"_"}
SpaceChars == {" "}
PrefixChars == {"a", "é", " ", "_", "-", "!"}

\* re.sub(r'[^\w\-\s]', '_', prefix)
sub_unsafe(s) ==
    [k \in 1..Len(s) |->
        IF s[k] \in WordChars \cup {"-"} \cup SpaceChars THEN s[k] ELSE "_"]

\* re.sub(r'[\s_]+', '_', sanitized)
RECURSIVE sub_runs(_)
sub_runs(s) ==
    IF s = <<>> THEN <<>>
    ELSE IF Head(s) \in SpaceChars \cup {"_"}
    THEN IF Len(s) >= 2 /\ s[2] \in SpaceChars \cup {"_"}
         THEN sub_runs(Tail(s))
         ELSE <<"_">> \o sub_runs(Tail(s))
    ELSE <<Head(s)>> \o sub_runs(Tail(s))

\* str.strip('_')
RECURSIVE lstrip_underscore(_)
lstrip_underscore(s) ==
    IF s # <<>> /\ Head(s) = "_" THEN lstrip_underscore(Tail(s)) ELSE s

RECURSIVE rstrip_underscore(_)
rstrip_underscore(s) ==
    IF s # <<>> /\ s[Len(s)] = "_" THEN rstrip_underscore(SubSeq(s, 1, Len(s) - 1)) ELSE s

strip_underscore(s) == rstrip_underscore(lstrip_underscore(s))

PREFIX_MAX_LENGTH == 50

\* sanitize_filename_prefix
sanitize_filename_prefix(prefix) ==
    IF prefix = <<>> THEN <<>>
    ELSE LET sanitized == strip_underscore(sub_runs(sub_unsafe(prefix)))
         IN  SubSeq(sanitized, 1, IF Len(sanitized) < PREFIX_MAX_LENGTH THEN Len(sanitized)
                                  ELSE PREFIX_MAX_LENGTH)

\* FILE_TYPE_CONFIG, in the order of the dictionary
FILE_TYPE_CONFIG ==
    <<[file_type |-> "RAW", max_size_mb |-> 250,
       extensions |-> {<<".", "d", "n", "g">>, <<".", "r", "a", "w">>, <<".", "c", "r", "2">>, <<".", "n", "e", "f">>, <<".", "a", "r", "w">>, <<".", "o", "r", "f">>, <<".", "r", "w", "2">>}],
      [file_type |-> "CR3", max_size_mb |-> 250,
       extensions |-> {<<".", "c", "r", "3">>}],
      [file_type |-> "TIFF", max_size_mb |-> 300,
       extensions |-> {<<".", "t", "i", "f", "f">>, <<".", "t", "i", "f">>}],
      [file_type |-> "JPEG", max_size_mb |-> 50,
       extensions |-> {<<".", "j", "p", "g">>, <<".", "j", "p", "e", "g">>}],
      [file_type |-> "PNG", max_size_mb |-> 100,
       extensions |-> {<<".", "p", "n", "g">>}],
      [file_type |-> "OTHER", max_size_mb |-> 75,
       extensions |-> {<<".", "h", "e", "i", "c">>, <<".", "w", "e", "b", "p">>, <<".", "b", "m", "p">>, <<".", "g", "i", "f">>}]>>

MiB == 1024 * 1024

\* os.path.splitext(filename)[1] for a filename without directory part: from
\* the last dot, unless only dots precede it
splitext_ext(filename) ==
    LET dots == {k \in 1..Len(filename) : filename[k] = "."}
        lastdot == CHOOSE k \in dots : \A j \in dots : j <= k
    IN  IF dots = {} THEN <<>>
        ELSE IF \A j \in 1..(lastdot - 1) : filename[j] = "." THEN <<>>
        ELSE SubSeq(filename, lastdot, Len(filename))

\* get_file_extension
get_file_extension(filename) ==
    IF filename = <<>> THEN <<>> ELSE to_lower(splitext_ext(filename))

\* get_file_type_info: the first entry listing the extension, else OTHER
get_file_type_info(filename) ==
    LET file_ext == get_file_extension(filename)
        hits == {k \in 1..Len(FILE_TYPE_CONFIG) : file_ext \in FILE_TYPE_CONFIG[k].extensions}
    IN  IF hits # {} THEN FILE_TYPE_CONFIG[CHOOSE k \in hits : \A j \in hits : k <= j]
        ELSE FILE_TYPE_CONFIG[CHOOSE k \in 1..Len(FILE_TYPE_CONFIG) :
                                  FILE_TYPE_CONFIG[k].file_type = "OTHER"]

\* file_size_bytes / (1024 * 1024), kept exact as whole MiB and remaining bytes
file_size_mb(file_size_bytes) ==
    [whole |-> file_size_bytes \div MiB, rest |-> file_size_bytes % MiB]

\* file_size_mb > max_size_mb
exceeds(mb, max_size_mb) == mb.whole > max_size_mb \/ (mb.whole = max_size_mb /\ mb.rest > 0)

\* variant: a file of exactly the maximum is rejected too
validate_file_size_strict(filename, file_size_bytes) ==
    LET mb == file_size_mb(file_size_bytes)
    IN  ~ (mb.whole >= get_file_type_info(filename).max_size_mb)

\* validate_file_size: is_valid
validate_file_size(filename, file_size_bytes) ==
    ~ exceeds(file_size_mb(file_size_bytes), get_file_type_info(filename).max_size_mb)

Filenames ==
    {<<"a", ".", "j", "p", "g">>,
     <<"a", ".", "J", "P", "G">>,
     <<"a", ".", "j", "p", "e", "g">>,
     <<"a", ".", "p", "n", "g">>,
     <<"a", ".", "t", "i", "f">>,
     <<"a", ".", "t", "i", "f", "f">>,
     <<"a", ".", "d", "n", "g">>,
     <<"a", ".", "c", "r", "3">>,
     <<"a", ".", "h", "e", "i", "c">>,
     <<"a", ".", "t", "x", "t">>,
     <<"a">>,
     <<".", "j", "p", "g">>,
     <<"a", ".", "b", ".", "j", "p", "g">>}

\* sizes at and next to every per-type maximum
FileSizes ==
    {0} \cup {FILE_TYPE_CONFIG[k].max_size_mb * MiB + d : k \in 1..Len(FILE_TYPE_CONFIG), d \in {-1, 0, 1}}

\* prefixes: a run of letters, of a length near the limit or empty, followed
\* by up to MaxTail characters
PadLengths == {0, 48, 49}
Pad(n) == [k \in 1..n |-> "a"]

NoCall == [fn |-> "none"]
UtilIdle == util_call = NoCall /\ util_result = <<>>

\* one call of normalize_dropbox_path
call_normalize_dropbox_path ==
    /\ util_call = NoCall
    /\ \E path \in Strings(PathChars, MaxPathLen) :
         /\ util_call' = [fn |-> "normalize_dropbox_path", path |-> path]
         /\ util_result' = normalize_dropbox_path(path)
    /\ UNCHANGED <<disc_vars, fin_vars, gw_vars, cred_vars, notifier_vars, ext_vars>>

\* one call of sanitize_filename_prefix
call_sanitize_filename_prefix ==
    /\ util_call = NoCall
    /\ \E n \in PadLengths, tail \in Strings(PrefixChars, MaxTail) :
         /\ util_call' = [fn |-> "sanitize_filename_prefix", prefix |-> Pad(n) \o tail]
         /\ util_result' = sanitize_filename_prefix(Pad(n) \o tail)
    /\ UNCHANGED <<disc_vars, fin_vars, gw_vars, cred_vars, notifier_vars, ext_vars>>

\* one call of validate_file_size
call_validate_file_size ==
    /\ util_call = NoCall
    /\ \E filename \in Filenames, file_size_bytes \in FileSizes :
         /\ util_call' = [fn |-> "validate_file_size", filename |-> filename,
                          file_size_bytes |-> file_size_bytes]
         /\ util_result' = <<validate_file_size(filename, file_size_bytes)>>
    /\ UNCHANGED <<disc_vars, fin_vars, gw_vars, cred_vars, notifier_vars, ext_vars>>

(***************************************************************************)
(* Gateway (src/packages/snapflow/gateway/__main__.py)                     *)
(***************************************************************************)
\* _clear_credentials_from_payload: sensitive_fields
clear_sensitive_fields ==
    <<"dropbox_app_key", "dropbox_app_secret", "dropbox_refresh_token",
      "fotello_api_key", "autohdr_api_key",
      "google_drive_client_id", "google_drive_client_secret", "google_drive_refresh_token">>

\* variant: the enhancement keys are left in the payload
clear_storage_only(payload) ==
    pop_all(payload, SubSeq(clear_sensitive_fields, 1, 3) \o SubSeq(clear_sensitive_fields, 6, 8))

\* _clear_credentials_from_payload
clear_credentials_from_payload(payload) == pop_all(payload, clear_sensitive_fields)

\* main, "Clear sensitive data before logging": the fields popped
main_cleared_fields ==
    <<"dropbox_app_key", "dropbox_app_secret", "dropbox_refresh_token",
      "fotello_api_key", "autohdr_api_key", "google_drive_client_secret",
      "google_drive_refresh_token">>

\* _parse_event_data: expected_fields
expected_fields ==
    {"client_id", "listing_id", "storage_provider", "enhancement_provider",
     "dropbox_refresh_token_encrypted", "dropbox_app_key_encrypted",
     "dropbox_app_secret_encrypted", "dropbox_team_member_id", "access_mode",
     "google_drive_client_id_encrypted", "google_drive_client_secret_encrypted",
     "google_drive_refresh_token_encrypted",
     "fotello_api_key_encrypted", "autohdr_api_key_encrypted", "autohdr_email",
     "callback_webhook", "brackets_data",
     "dropbox_folder", "dropbox_destination_folder",
     "google_drive_folder_id", "google_drive_destination_folder_id",
     "notification_level", "filename_prefix", "skip_finalize"}

NoData == [ok |-> FALSE, data |-> EmptyDict]

\* _parse_event_data: the fields sit at the top level of an HTTP request
\* ("http"), in a body object or JSON string ("body"), or at the top level of
\* a direct invocation ("direct")
parse_event_data(ev) ==
    IF ev.format = "http"
    THEN [ok |-> TRUE, data |-> [f \in DOMAIN ev.fields \cap expected_fields |-> ev.fields[f]]]
    ELSE IF ev.format = "body"
    THEN [ok |-> TRUE, data |-> ev.fields]
    ELSE IF "listing_id" \in DOMAIN ev.fields \/ "client_id" \in DOMAIN ev.fields
    THEN [ok |-> TRUE, data |-> ev.fields]
    ELSE NoData

\* variant: the destination folder is not required
validate_without_destination(data_) ==
    {f \in {"client_id", "listing_id", "callback_webhook", "brackets_data"} :
        ~ truthy(get(data_, f))}
    \cup (IF ~ truthy(get(data_, "dropbox_refresh_token_encrypted"))
             /\ ~ truthy(get(data_, "google_drive_refresh_token_encrypted"))
          THEN {"storage_credentials (dropbox or google_drive)"} ELSE {})
    \cup (IF ~ truthy(get(data_, "fotello_api_key_encrypted"))
             /\ ~ truthy(get(data_, "autohdr_api_key_encrypted"))
          THEN {"enhancement_credentials (fotello or autohdr)"} ELSE {})

\* _validate_required_fields
validate_required_fields(data_) ==
    {f \in {"client_id", "listing_id", "callback_webhook", "brackets_data"} :
        ~ truthy(get(data_, f))}
    \cup (IF ~ truthy(get(data_, "dropbox_refresh_token_encrypted"))
             /\ ~ truthy(get(data_, "google_drive_refresh_token_encrypted"))
          THEN {"storage_credentials (dropbox or google_drive)"} ELSE {})
    \cup (IF ~ truthy(get(data_, "fotello_api_key_encrypted"))
             /\ ~ truthy(get(data_, "autohdr_api_key_encrypted"))
          THEN {"enhancement_credentials (fotello or autohdr)"} ELSE {})
    \cup (IF ~ truthy(get(data_, "dropbox_destination_folder"))
             /\ ~ truthy(get(data_, "google_drive_destination_folder_id"))
          THEN {"destination_folder"} ELSE {})

\* _detect_providers
detect_providers(data_) ==
    [storage_provider |->
        IF truthy(get(data_, "storage_provider")) THEN data_["storage_provider"]
        ELSE IF truthy(get(data_, "dropbox_refresh_token_encrypted")) THEN "dropbox"
        ELSE IF truthy(get(data_, "google_drive_refresh_token_encrypted")) THEN "google_drive"
        ELSE NoneValue,
     enhancement_provider |->
        IF truthy(get(data_, "enhancement_provider")) THEN data_["enhancement_provider"]
        ELSE IF truthy(get(data_, "fotello_api_key_encrypted")) THEN "fotello"
        ELSE IF truthy(get(data_, "autohdr_api_key_encrypted")) THEN "autohdr"
        ELSE NoneValue]

\* _build_process_payload: identity, providers, job data and the credentials
\* of the detected providers.  The requests of the model carry no
\* filename_prefix: the payload's is sanitize_filename_prefix(''), the empty
\* string.
build_process_payload(data_, decrypted, job_id_, storage_provider, enhancement_provider) ==
    LET base ==
            "job_id" :> job_id_ @@
            "client_id" :> get(data_, "client_id") @@
            "listing_id" :> get(data_, "listing_id") @@
            "storage_provider" :> storage_provider @@
            "enhancement_provider" :> enhancement_provider @@
            "brackets_data" :> get(data_, "brackets_data") @@
            "callback_webhook" :> get(data_, "callback_webhook") @@
            "notification_level" :>
                (IF "notification_level" \in DOMAIN data_ THEN data_["notification_level"]
                 ELSE "minimal") @@
            "filename_prefix" :> "" @@
            "skip_finalize" :>
                (IF "skip_finalize" \in DOMAIN data_ THEN data_["skip_finalize"] ELSE "False") @@
            "version" :> "VERSION"
        storage ==
            IF storage_provider = "dropbox"
            THEN "dropbox_refresh_token" :> get(decrypted, "dropbox_refresh_token") @@
                 "dropbox_app_key" :> get(decrypted, "dropbox_app_key") @@
                 "dropbox_app_secret" :> get(decrypted, "dropbox_app_secret") @@
                 "dropbox_destination_folder" :> get(data_, "dropbox_destination_folder") @@
                 "dropbox_folder" :> get(data_, "dropbox_folder") @@
                 "dropbox_team_member_id" :> get(data_, "dropbox_team_member_id") @@
                 "access_mode" :>
                     (IF "access_mode" \in DOMAIN data_ THEN data_["access_mode"] ELSE "member")
            ELSE IF storage_provider = "google_drive"
            THEN "google_drive_client_id" :> get(decrypted, "google_drive_client_id") @@
                 "google_drive_client_secret" :> get(decrypted, "google_drive_client_secret") @@
                 "google_drive_refresh_token" :> get(decrypted, "google_drive_refresh_token") @@
                 "google_drive_folder_id" :> get(data_, "google_drive_folder_id") @@
                 "google_drive_destination_folder_id" :>
                     get(data_, "google_drive_destination_folder_id")
            ELSE EmptyDict
        enhancement ==
            IF enhancement_provider = "fotello"
            THEN "fotello_api_key" :> get(decrypted, "fotello_api_key")
            ELSE IF enhancement_provider = "autohdr"
            THEN "autohdr_api_key" :> get(decrypted, "autohdr_api_key") @@
                 "autohdr_email" :> get(data_, "autohdr_email")
            ELSE EmptyDict
    IN  update(update(base, storage), enhancement)

\* the requests of the model: each group of fields present or absent
IdentityFields ==
    "client_id" :> "001" @@ "listing_id" :> "listing-1" @@
    "callback_webhook" :> "https://callback" @@ "brackets_data" :> "[[f,f,f],[f,f,f]]"

DropboxFields ==
    {EmptyDict,
     "dropbox_refresh_token_encrypted" :> "gAAAA:refresh-token",
     "dropbox_refresh_token_encrypted" :> "gAAAA:refresh-token" @@
         "dropbox_app_key_encrypted" :> "gAAAA:app-key" @@
         "dropbox_app_secret_encrypted" :> "gAAAA:app-secret",
     "dropbox_refresh_token_encrypted" :> "gAAAA:refresh-token" @@
         "dropbox_app_key_encrypted" :> "gAAAA:short-key" @@
         "dropbox_app_secret_encrypted" :> "gAAAA:app-secret",
     "dropbox_refresh_token_encrypted" :> "not-a-token" @@
         "dropbox_app_key_encrypted" :> "gAAAA:app-key" @@
         "dropbox_app_secret_encrypted" :> "gAAAA:app-secret"}

GoogleDriveFields ==
    {EmptyDict,
     "google_drive_client_id_encrypted" :> "gAAAA:client-id" @@
         "google_drive_client_secret_encrypted" :> "gAAAA:client-secret" @@
         "google_drive_refresh_token_encrypted" :> "gAAAA:refresh-token"}

EnhancementFields ==
    {EmptyDict,
     "fotello_api_key_encrypted" :> "gAAAA:fotello-key",
     "autohdr_api_key_encrypted" :> "gAAAA:short-key" @@ "autohdr_email" :> "a@b.c",
     "fotello_api_key_encrypted" :> "gAAAA:fotello-key" @@
         "autohdr_api_key_encrypted" :> "gAAAA:short-key" @@ "autohdr_email" :> "a@b.c"}

DestinationFields ==
    {EmptyDict,
     "dropbox_destination_folder" :> "/enhanced",
     "google_drive_destination_folder_id" :> "folder-id",
     "dropbox_destination_folder" :> "/enhanced" @@
         "google_drive_destination_folder_id" :> "folder-id"}

SelectorFields ==
    {update(s, e) :
        s \in {EmptyDict} \cup {"storage_provider" :> p : p \in {"dropbox", "google_drive", "s3"}},
        e \in {EmptyDict, "enhancement_provider" :> "autohdr"}}

GatewayFields ==
    {update(update(update(update(update([f \in ids |-> IdentityFields[f]], d), g), e), dest), sel) :
        ids \in SUBSET DOMAIN IdentityFields, d \in DropboxFields, g \in GoogleDriveFields,
        e \in EnhancementFields, dest \in DestinationFields, sel \in SelectorFields}

\* requests in the nested shape: the identity fields, a destination and the
\* two credential sub-objects
NestedGatewayFields ==
    {update(update(IdentityFields, dest),
            "storage_credentials" :> b @@ "enhancement_credentials" :> e) :
        dest \in DestinationFields \ {EmptyDict},
        b \in {c \in StorageBundles : "refresh_token_encrypted" \in DOMAIN c
                                          /\ c["refresh_token_encrypted"] # ""},
        e \in {c \in EnhancementBundles : c["api_key_encrypted"] # NoneValue}}

NoGwEvent == [format |-> "none", fields |-> EmptyDict, process_url |-> ""]
NoGwResponse == [statusCode |-> 0, error |-> "", job_id |-> "", correlation_id |-> ""]
GwError(code, msg) ==
    [statusCode |-> code, error |-> msg, job_id |-> "", correlation_id |-> "corr-gw"]

GwIdle ==
    /\ gw_event = NoGwEvent
    /\ gw_pc = "idle"
    /\ gw_response = NoGwResponse
    /\ job_id = ""
    /\ decrypted_data = EmptyDict
    /\ process_payload = EmptyDict
    /\ thread_pc = "none"
    /\ thread_payload = EmptyDict
    /\ http_posts = <<>>

\* len(value.strip()) of a decrypted value
text_len(value) == IF value \in DOMAIN Text THEN Len(Text[value]) ELSE 0

\* main, from the event to either an error response or the start of the
\* dispatch thread (dispatch_thread.start())
gateway_request(ev) ==
    LET parsed == parse_event_data(ev)
        data_ == parsed.data
        providers == detect_providers(data_)
        decrypted == decrypt_credentials(data_, TRUE)
        payload == build_process_payload(data_, decrypted.value, "job-uuid",
                       providers.storage_provider, providers.enhancement_provider)
        answer(code, msg) ==
            /\ gw_response' = GwError(code, msg)
            /\ gw_pc' = "done"
            /\ UNCHANGED <<decrypted_data, process_payload, thread_pc, thread_payload>>
    IN  /\ gw_event' = ev
        /\ http_posts' = http_posts
        /\ IF ~ parsed.ok \/ DOMAIN data_ = {}
           THEN answer(400, "Invalid data format") /\ job_id' = job_id
           ELSE IF ~ truthy(get(data_, "client_id"))
           THEN answer(400, "client_id is required") /\ job_id' = job_id
           ELSE IF validate_required_fields(data_) # {}
           THEN answer(400, "Missing required fields") /\ job_id' = job_id
           ELSE IF decrypted.raised
           THEN answer(400, "Credential decryption failed") /\ job_id' = job_id
           ELSE IF providers.storage_provider = "dropbox"
                   /\ (~ truthy(get(decrypted.value, "dropbox_app_key"))
                       \/ text_len(get(decrypted.value, "dropbox_app_key")) < 10)
           THEN answer(400, "Invalid decrypted dropbox_app_key format") /\ job_id' = job_id
           ELSE IF ev.process_url = ""
           THEN answer(500, "PROCESS_FUNCTION_URL not configured") /\ job_id' = "job-uuid"
           ELSE /\ job_id' = "job-uuid"
                /\ decrypted_data' = decrypted.value
                /\ process_payload' = payload
                /\ thread_payload' = payload
                /\ thread_pc' = "started"
                /\ gw_pc' = "dispatched"
                /\ gw_response' = gw_response

\* main: one request arrives
gateway_main ==
    /\ gw_pc = "idle"
    /\ \E format \in {"direct", "body", "http"},
          fields \in GatewayFields \cup NestedGatewayFields,
          process_url \in {"", "https://process"} :
         gateway_request([format |-> format, fields |-> fields, process_url |-> process_url])
    /\ UNCHANGED <<disc_vars, fin_vars, lib_vars, ext_vars>>

\* variant: the thread is handed main's own dictionary, so main's pops reach it
thread_copy_shared(payload, popped) == pop_all(payload, popped)

\* main, Thread(args=(..., process_payload.copy(), ...)): the thread holds a
\* copy of its own, which main's pops of `popped` leave as it is
thread_copy(payload, popped) == payload

\* main, after the thread is started: the credential fields are popped from
\* decrypted_data and process_payload and the 202 response is returned
gateway_respond ==
    /\ gw_pc = "dispatched"
    /\ decrypted_data' = pop_all(decrypted_data, main_cleared_fields)
    /\ process_payload' = pop_all(process_payload, main_cleared_fields)
    /\ thread_payload' = thread_copy(thread_payload, main_cleared_fields)
    /\ gw_response' = [statusCode |-> 202, error |-> "", job_id |-> job_id,
                       correlation_id |-> "corr-gw"]
    /\ gw_pc' = "done"
    /\ UNCHANGED <<gw_event, job_id, thread_pc, http_posts>>
    /\ UNCHANGED <<disc_vars, fin_vars, lib_vars, ext_vars>>

\* variant: a failed dispatch is only logged
send_dispatch_error_never(callback_webhook, error) == <<>>

\* _send_dispatch_error: the POST to the callback URL, if there is one
send_dispatch_error(callback_webhook, error) ==
    IF ~ truthy(callback_webhook) THEN <<>>
    ELSE <<[url |-> callback_webhook, status |-> "dispatch_failed", error |-> error,
            body |-> EmptyDict]>>

\* _dispatch_async, the try block: the payload gets the correlation id and is
\* posted to the process stage, which answers below 400, answers 400 or above,
\* or the POST raises; in the last two cases the error callback is sent
dispatch_async_try ==
    /\ thread_pc = "started"
    /\ \E outcome \in {"ok", "status_400_or_above", "raised"} :
         LET payload == put(thread_payload, "correlation_id", "corr-gw")
             dispatched == [url |-> gw_event.process_url, status |-> outcome, error |-> "",
                            body |-> payload]
         IN  /\ thread_payload' = payload
             /\ http_posts' = http_posts \o <<dispatched>> \o
                    (IF outcome = "ok" THEN <<>>
                     ELSE send_dispatch_error(get(parse_event_data(gw_event).data, "callback_webhook"),
                                              outcome))
    /\ thread_pc' = "finally"
    /\ UNCHANGED <<gw_event, gw_pc, gw_response, job_id, decrypted_data, process_payload>>
    /\ UNCHANGED <<disc_vars, fin_vars, lib_vars, ext_vars>>

\* _dispatch_async, the finally block
dispatch_async_finally ==
    /\ thread_pc = "finally"
    /\ thread_payload' = clear_credentials_from_payload(thread_payload)
    /\ thread_pc' = "ended"
    /\ UNCHANGED <<gw_event, gw_pc, gw_response, job_id, decrypted_data, process_payload,
                   http_posts>>
    /\ UNCHANGED <<disc_vars, fin_vars, lib_vars, ext_vars>>

(***************************************************************************)
(* Webhook notifier (shared/notifications/webhook_notifier.py)             *)
(***************************************************************************)
CRITICAL_NOTIFICATIONS ==
    {"job_failed", "job_completed", "job_partial_success", "job_started",
     "dispatch_failed", "process_completed_success", "finalize_processing_started",
     "dropbox_connection_failed", "enhancement_request_success",
     "google_drive_connection_failed"}

MINIMAL_ALLOWED ==
    {"process_started_detailed", "dropbox_connected_success",
     "google_drive_connected_success", "bracket_processing_started",
     "process_completed_success"}

VERBOSE_ONLY ==
    {"status_checked", "upload_attempt_details", "upload_result_details",
     "dropbox_token_refresh_attempt", "finalize_call_attempt", "retry_attempt"}

\* the keyword parameters of WebhookNotifier.__init__; it takes no **kwargs
WebhookNotifierParams ==
    {"callback_webhook", "job_id", "listing_id", "correlation_id",
     "notification_level", "function_name", "version"}

\* the call WebhookNotifier(**kwargs) raises TypeError on a keyword that is
\* no parameter
webhook_notifier_init_raises(kwargs) == ~ (kwargs \subseteq WebhookNotifierParams)

\* variant: at minimal every event is sent
should_send_minimal_all(level, status, log_level) ==
    IF log_level = "ERROR" THEN TRUE
    ELSE IF status \in CRITICAL_NOTIFICATIONS THEN TRUE
    ELSE IF level = "errors_only" THEN FALSE
    ELSE IF level = "minimal" THEN TRUE
    ELSE IF level = "standard" THEN status \notin VERBOSE_ONLY
    ELSE TRUE

\* variant: errors_only is tested before the critical set
should_send_level_first(level, status, log_level) ==
    IF log_level = "ERROR" THEN TRUE
    ELSE IF level = "errors_only" THEN FALSE
    ELSE IF status \in CRITICAL_NOTIFICATIONS THEN TRUE
    ELSE IF level = "minimal" THEN status \in MINIMAL_ALLOWED
    ELSE IF level = "standard" THEN status \notin VERBOSE_ONLY
    ELSE TRUE

\* _should_send
should_send(level, status, log_level) ==
    IF log_level = "ERROR" THEN TRUE
    ELSE IF status \in CRITICAL_NOTIFICATIONS THEN TRUE
    ELSE IF level = "errors_only" THEN FALSE
    ELSE IF level = "minimal" THEN status \in MINIMAL_ALLOWED
    ELSE IF level = "standard" THEN status \notin VERBOSE_ONLY
    ELSE TRUE

\* variant: send_debug posts without asking _should_send
send_debug_unfiltered(callback_webhook, level, status, log_level) ==
    IF callback_webhook = "" THEN <<>> ELSE <<status>>

\* send_debug: the statuses actually posted, given the callback URL and the level
send_debug(callback_webhook, level, status, log_level) ==
    IF callback_webhook = "" THEN <<>>
    ELSE IF ~ should_send(level, status, log_level) THEN <<>>
    ELSE <<status>>

\* send_business: posted whenever there is a callback URL
send_business(callback_webhook, job_data) ==
    IF callback_webhook = "" THEN <<>> ELSE <<job_data>>

\* NotificationLevel: the values of the enumeration
NotificationLevels == {"errors_only", "minimal", "standard", "verbose"}

\* what a caller may pass as notification_level: a level name in lower or
\* upper case, another string, None, or a NotificationLevel member
LevelArguments ==
    {"errors_only", "minimal", "standard", "verbose", "VERBOSE", "Errors_Only", "bogus",
     NoneValue, "<NotificationLevel.VERBOSE>"}

\* str.lower on the level arguments that are strings
level_lower ==
    "errors_only" :> "errors_only" @@ "minimal" :> "minimal" @@ "standard" :> "standard" @@
    "verbose" :> "verbose" @@ "VERBOSE" :> "verbose" @@ "Errors_Only" :> "errors_only" @@
    "bogus" :> "bogus"

\* __init__, "Parse notification level": ValueError (no such level) and
\* AttributeError (the argument has no lower()) give MINIMAL
parse_notification_level(notification_level) ==
    IF notification_level \in DOMAIN level_lower
          /\ level_lower[notification_level] \in NotificationLevels
    THEN level_lower[notification_level]
    ELSE "minimal"

\* the event names of the model: the three sets and two names in none of them
EventNames ==
    CRITICAL_NOTIFICATIONS \cup MINIMAL_ALLOWED \cup VERBOSE_ONLY
        \cup {"bracket_completed", "api_error"}
LogLevels == {"INFO", "ERROR", "WARNING", "DEBUG"}

NoNotifier == [constructed |-> FALSE, callback_webhook |-> "", notification_level |-> ""]
NoNotifierCall == [method |-> "none", status |-> "", log_level |-> ""]

NotifierIdle ==
    /\ self_notifier = NoNotifier
    /\ notifier_call = NoNotifierCall
    /\ notifier_posts = <<>>

\* WebhookNotifier(callback_webhook=..., notification_level=...)
notifier_init ==
    /\ ~ self_notifier.constructed
    /\ \E callback_webhook \in {"", "https://callback"}, notification_level \in LevelArguments :
         self_notifier' = [constructed |-> TRUE, callback_webhook |-> callback_webhook,
                           notification_level |-> parse_notification_level(notification_level)]
    /\ UNCHANGED <<notifier_call, notifier_posts>>
    /\ UNCHANGED <<disc_vars, fin_vars, gw_vars, cred_vars, util_vars, ext_vars>>

\* the requests.post calls of one method call, as records
posted(kind, statuses) == [k \in 1..Len(statuses) |-> [kind |-> kind, status |-> statuses[k]]]

\* notifier.send_debug(status, extra_data, log_level)
call_send_debug ==
    /\ self_notifier.constructed /\ notifier_call = NoNotifierCall
    /\ \E status \in EventNames, log_level \in LogLevels :
         /\ notifier_call' = [method |-> "send_debug", status |-> status, log_level |-> log_level]
         /\ notifier_posts' = notifier_posts \o
                posted("debug", send_debug(self_notifier.callback_webhook,
                                           self_notifier.notification_level, status, log_level))
    /\ UNCHANGED self_notifier
    /\ UNCHANGED <<disc_vars, fin_vars, gw_vars, cred_vars, util_vars, ext_vars>>

\* notifier.send_error(error_status, error_message): send_debug at ERROR
call_send_error ==
    /\ self_notifier.constructed /\ notifier_call = NoNotifierCall
    /\ \E status \in EventNames :
         /\ notifier_call' = [method |-> "send_error", status |-> status, log_level |-> "ERROR"]
         /\ notifier_posts' = notifier_posts \o
                posted("debug", send_debug(self_notifier.callback_webhook,
                                           self_notifier.notification_level, status, "ERROR"))
    /\ UNCHANGED self_notifier
    /\ UNCHANGED <<disc_vars, fin_vars, gw_vars, cred_vars, util_vars, ext_vars>>

\* notifier.send_business(notification_type, job_data) and
\* notifier.send_job_result(status, ...), which builds job_data and calls it
call_send_business ==
    /\ self_notifier.constructed /\ notifier_call = NoNotifierCall
    /\ \E method \in {"send_business", "send_job_result"},
          status \in {"job_started", "job_completed", "job_partial_success", "job_failed",
                      "enhancement_requested"} :
         /\ notifier_call' = [method |-> method, status |-> status, log_level |-> "INFO"]
         /\ notifier_posts' = notifier_posts \o
                posted("business", send_business(self_notifier.callback_webhook, status))
    /\ UNCHANGED self_notifier
    /\ UNCHANGED <<disc_vars, fin_vars, gw_vars, cred_vars, util_vars, ext_vars>>

\* the shared library at rest: no function called, no notifier constructed
LibIdle == CredIdle /\ UtilIdle /\ NotifierIdle

(***************************************************************************)
(* Process stage (packages/snapflow/process/__main__.py).  A file of a      *)
(* bracket is a record of what the event says about it (name, path) and of  *)
(* what the providers answer for it: download is the number of bytes        *)
(* download_file returns, or -1 when it raises; upload_ok tells whether     *)
(* upload_image returns an upload id or raises.                             *)
(***************************************************************************)
JpegName == <<"a", ".", "j", "p", "g">>

ProcessFiles ==
    {[name |-> JpegName, path_lower |-> "", download |-> 50 * MiB, upload_ok |-> TRUE],
     [name |-> JpegName, path_lower |-> "/p", download |-> -1, upload_ok |-> TRUE],
     [name |-> JpegName, path_lower |-> "/p", download |-> 50 * MiB + 1, upload_ok |-> TRUE],
     [name |-> JpegName, path_lower |-> "/p", download |-> 50 * MiB, upload_ok |-> FALSE],
     [name |-> JpegName, path_lower |-> "/p", download |-> 50 * MiB, upload_ok |-> TRUE]}

\* the file passes the download loop: it has a path, the download returns
\* and the size is valid for the type
file_downloaded(f) ==
    /\ f.path_lower # ""
    /\ f.download >= 0
    /\ validate_file_size(f.name, f.download)

\* the positions of a bracket's files, in order
positions(bracket) == [k \in 1..Len(bracket) |-> k]

\* variant: the first file that cannot be used ends the download loop
download_until_failure(files) ==
    LET bad == {k \in 1..Len(files) : ~ file_downloaded(files[k])}
    IN  IF bad = {} THEN positions(files)
        ELSE SubSeq(positions(files), 1, (CHOOSE k \in bad : \A j \in bad : k <= j) - 1)

\* main, the download loop of a bracket: the positions of the files put in
\* bracket_files
download_files(files) ==
    LET kept(k) == file_downloaded(files[k])
    IN  SelectSeq(positions(files), kept)

\* main, the upload loop of a bracket: the positions of the files whose
\* upload returned an upload id
upload_files(files, bracket_files) ==
    LET uploaded(k) == files[k].upload_ok
    IN  SelectSeq(bracket_files, uploaded)

\* variant: the enhancement is requested whether or not a file was uploaded
request_always(upload_ids) == TRUE

\* main, "if not upload_ids: ... continue": the enhancement is requested
request_wanted(upload_ids) == upload_ids # <<>>

\* _parse_notification_level of the stage: the member of NotificationLevel
\* for a level name, MINIMAL for anything else
stage_parse_notification_level(level_str) ==
    IF level_str = "errors_only" THEN "<NotificationLevel.ERRORS_ONLY>"
    ELSE IF level_str = "standard" THEN "<NotificationLevel.STANDARD>"
    ELSE IF level_str = "verbose" THEN "<NotificationLevel.VERBOSE>"
    ELSE "<NotificationLevel.MINIMAL>"

\* the notification level of the notifier main creates: main passes the
\* NotificationLevel member, which has no lower()
ProcessLevel(level_str) ==
    parse_notification_level(stage_parse_notification_level(level_str))

\* the notifier main creates for an event
process_notifier(ev) ==
    [callback_webhook |-> ev.callback_webhook,
     notification_level |-> ProcessLevel(ev.notification_level)]

\* notifier.send_debug / send_error of the process notifier
process_debug(notifier_, status, log_level) ==
    posted("debug", send_debug(notifier_.callback_webhook, notifier_.notification_level,
                               status, log_level))

\* main, one pass of the bracket loop: what it adds to the lists and counters
process_bracket(idx_, bracket, notifier_) ==
    LET files == bracket.files
        bracket_files == download_files(files)
        upload_ids == upload_files(files, bracket_files)
        started == process_debug(notifier_, "processing_bracket_started", "INFO")
        uploads == [k \in 1..Len(bracket_files) |->
                       [call |-> "upload_image", bracket_index |-> idx_,
                        file |-> bracket_files[k]]]
        request == <<[call |-> "request_enhancement", bracket_index |-> idx_,
                      file |-> Len(upload_ids)]>>
    IN  IF bracket_files = <<>>
        THEN [tickets |-> <<>>, calls |-> <<>>, files_processed |-> 0, files_uploaded |-> 0,
              posts |-> started \o
                  process_debug(notifier_, "bracket_skipped_no_files", "INFO")]
        ELSE IF ~ request_wanted(upload_ids)
        THEN [tickets |-> <<>>, calls |-> uploads, files_processed |-> Len(bracket_files),
              files_uploaded |-> 0,
              posts |-> started \o
                  process_debug(notifier_, "bracket_upload_failed", "INFO")]
        ELSE IF ~ bracket.request_ok
        THEN [tickets |-> <<>>, calls |-> uploads \o request,
              files_processed |-> Len(bracket_files), files_uploaded |-> Len(upload_ids),
              posts |-> started \o
                  process_debug(notifier_, "bracket_processing_error", "ERROR")]
        ELSE [tickets |-> <<[bracket_index |-> idx_, file_count |-> Len(upload_ids)]>>,
              calls |-> uploads \o request,
              files_processed |-> Len(bracket_files), files_uploaded |-> Len(upload_ids),
              posts |-> started \o
                  process_debug(notifier_, "enhancement_request_success", "INFO")]

\* a bracket of the event with the answer to its enhancement request; the
\* answer matters only when a file of the bracket can be uploaded
RECURSIVE FileLists(_)
FileLists(n) ==
    IF n = 0 THEN {<<>>}
    ELSE LET shorter == FileLists(n - 1)
         IN  shorter \cup {Append(fs, f) : fs \in {t \in shorter : Len(t) = n - 1},
                                           f \in ProcessFiles}

ProcessBrackets ==
    {[files |-> fs, request_ok |-> ok] :
        fs \in FileLists(MaxBracketFiles), ok \in BOOLEAN}
    \ {b \in [files : FileLists(MaxBracketFiles), request_ok : {FALSE}] :
          upload_files(b.files, download_files(b.files)) = <<>>}

RECURSIVE BracketLists(_)
BracketLists(n) ==
    IF n = 0 THEN {<<>>}
    ELSE LET shorter == BracketLists(n - 1)
         IN  shorter \cup {Append(bs, b) : bs \in {t \in shorter : Len(t) = n - 1},
                                           b \in ProcessBrackets}

NoProcEvent ==
    [format |-> "none", listing_id |-> "", callback_webhook |-> "", correlation_id |-> "",
     skip_finalize |-> FALSE, brackets_data |-> <<>>, providers_ok |-> TRUE,
     finalize_url |-> "", notification_level |-> "minimal"]
NoProcResponse ==
    [statusCode |-> 0, status |-> "", enhancement_ids |-> <<>>, correlation_id |-> ""]
\* a response of main; correlation_id is the event's, or a fresh uuid
ProcResponse(ev, code, status, ids) ==
    [statusCode |-> code, status |-> status, enhancement_ids |-> ids,
     correlation_id |-> IF ev.correlation_id # "" THEN ev.correlation_id ELSE "uuid"]
NoCounts == [files_processed |-> 0, files_uploaded |-> 0, brackets_processed |-> 0]

ProcIdle ==
    /\ proc_event = NoProcEvent
    /\ proc_pc = "idle"
    /\ proc_response = NoProcResponse
    /\ proc_posts = <<>>
    /\ proc_calls = <<>>
    /\ enhancement_ids = <<>>
    /\ bracket_idx = 0
    /\ proc_counts = NoCounts

\* the events of the model: without usable data, without a required
\* field, with providers that cannot be created, or with a listing, a
\* callback URL and brackets
ProcessEvents ==
    {[NoProcEvent EXCEPT !.format = "empty"]}
    \cup {[NoProcEvent EXCEPT !.format = "direct", !.listing_id = l, !.callback_webhook = c,
                             !.correlation_id = corr] :
             l \in {"", "listing-1"}, c \in {"", "https://callback"}, corr \in {"", "corr-1"}}
    \cup {[NoProcEvent EXCEPT !.format = f, !.listing_id = "listing-1",
                             !.callback_webhook = "https://callback",
                             !.correlation_id = "corr-1", !.brackets_data = bs,
                             !.providers_ok = FALSE, !.notification_level = lv] :
             f \in {"direct", "body"}, bs \in BracketLists(1) \ {<<>>},
             lv \in {"minimal", "verbose", "bogus"}}
    \cup {[NoProcEvent EXCEPT !.format = "direct", !.listing_id = "listing-1",
                             !.callback_webhook = "https://callback",
                             !.correlation_id = "corr-1", !.brackets_data = bs,
                             !.skip_finalize = skip, !.finalize_url = url] :
             bs \in BracketLists(MaxBrackets) \ {<<>>},
             skip \in BOOLEAN, url \in {"", "https://finalize"}}

\* the statuses sent with notifier.send_debug(status, ...), in order
RECURSIVE process_debug_all(_, _)
process_debug_all(notifier_, statuses) ==
    IF statuses = <<>> THEN <<>>
    ELSE process_debug(notifier_, Head(statuses), "INFO")
             \o process_debug_all(notifier_, Tail(statuses))

\* main as shipped: the event is parsed and the notifier is created; the
\* call WebhookNotifier(..., client_id=client_id, ...) raises TypeError, the
\* handler finds notifier None and returns job_failed without a callback
process_main ==
    /\ proc_pc = "idle"
    /\ \E ev \in ProcessEvents :
         /\ proc_event' = ev
         /\ proc_response' =
                IF ev.format = "empty" THEN ProcResponse(ev, 400, "job_failed", <<>>)
                ELSE IF webhook_notifier_init_raises(
                            {"callback_webhook", "job_id", "listing_id", "client_id",
                             "correlation_id", "notification_level", "function_name",
                             "version"})
                THEN ProcResponse(ev, 500, "job_failed", <<>>)
                ELSE NoProcResponse
         /\ proc_pc' = IF proc_response'.statusCode # 0 THEN "done" ELSE "created"
    /\ UNCHANGED <<proc_posts, proc_calls, enhancement_ids, bracket_idx, proc_counts>>
    /\ UNCHANGED <<disc_vars, fin_vars, gw_vars, lib_vars, after_proc_vars>>

\* main as written, from entry to the bracket loop, the notifier taken as
\* created: validation, creation of the two providers, and the
\* notifications sent on the way
process_start ==
    /\ proc_pc = "idle"
    /\ \E ev \in ProcessEvents :
         LET cb == process_notifier(ev)
             answer(code, posts) ==
                 /\ proc_response' = ProcResponse(ev, code, "job_failed", <<>>)
                 /\ proc_posts' = posts
                 /\ proc_pc' = "done"
         IN  /\ proc_event' = ev
             /\ IF ev.format = "empty" THEN answer(400, <<>>)
                ELSE IF ev.listing_id = "" \/ ev.callback_webhook = ""
                THEN answer(400, process_debug_all(cb, <<"process_started">>))
                ELSE IF ev.brackets_data = <<>>
                THEN answer(400, process_debug_all(cb, <<"process_started">>))
                ELSE IF ~ ev.providers_ok
                THEN answer(500, process_debug_all(cb, <<"process_started", "storage_connecting">>)
                                     \o process_debug(cb, "storage_connection_failed", "ERROR"))
                ELSE /\ proc_posts' = process_debug_all(cb,
                            <<"process_started", "storage_connecting", "storage_connected",
                              "enhancement_connecting", "enhancement_connected",
                              "bracket_processing_started">>)
                     /\ proc_pc' = "brackets"
                     /\ proc_response' = proc_response
    /\ UNCHANGED <<proc_calls, enhancement_ids, bracket_idx, proc_counts>>
    /\ UNCHANGED <<disc_vars, fin_vars, gw_vars, lib_vars, after_proc_vars>>

\* main, one pass of "for bracket_idx, bracket in enumerate(brackets_data)"
process_next_bracket ==
    /\ proc_pc = "brackets"
    /\ bracket_idx < Len(proc_event.brackets_data)
    /\ LET r == process_bracket(bracket_idx, proc_event.brackets_data[bracket_idx + 1],
                                process_notifier(proc_event))
       IN  /\ enhancement_ids' = enhancement_ids \o r.tickets
           /\ proc_calls' = proc_calls \o r.calls
           /\ proc_posts' = proc_posts \o r.posts
           /\ proc_counts' =
                  [files_processed |-> proc_counts.files_processed + r.files_processed,
                   files_uploaded |-> proc_counts.files_uploaded + r.files_uploaded,
                   brackets_processed |-> proc_counts.brackets_processed + Len(r.tickets)]
    /\ bracket_idx' = bracket_idx + 1
    /\ UNCHANGED <<proc_event, proc_pc, proc_response>>
    /\ UNCHANGED <<disc_vars, fin_vars, gw_vars, lib_vars, after_proc_vars>>

\* variant: a job without tickets goes on to the finalize step
check_results_never_raises(ids) == FALSE

\* main, "CHECK RESULTS": raise when no ticket was produced
check_results_raises(ids) == ids = <<>>

\* variant: a failed finalize call is only printed
finalize_call_unreported(notifier_, outcome) ==
    IF outcome = "ok"
    THEN process_debug(notifier_, "finalize_called_successfully", "INFO")
    ELSE <<>>

\* main, the notification that follows the POST to the finalize stage
finalize_call_reported(notifier_, outcome) ==
    IF outcome = "ok"
    THEN process_debug(notifier_, "finalize_called_successfully", "INFO")
    ELSE IF outcome = "status_400_or_above"
    THEN process_debug(notifier_, "finalize_call_failed", "ERROR")
    ELSE process_debug(notifier_, "finalize_call_exception", "ERROR")

\* main, after the loop: check of the results, then the skip_finalize
\* return, or the call of the finalize stage and the final return; the
\* exception raised by the check is handled by main's handler
process_finish ==
    /\ proc_pc = "brackets"
    /\ bracket_idx = Len(proc_event.brackets_data)
    /\ LET cb == process_notifier(proc_event)
       IN  IF check_results_raises(enhancement_ids)
           THEN /\ proc_posts' = proc_posts \o process_debug(cb, "job_failed", "ERROR")
                /\ proc_response' = ProcResponse(proc_event, 500, "job_failed", <<>>)
                /\ proc_calls' = proc_calls
           ELSE IF proc_event.skip_finalize
           THEN /\ proc_posts' = proc_posts
                       \o process_debug(cb, "finalize_skipped", "INFO")
                       \o posted("business", send_business(cb.callback_webhook, "enhancement_requested"))
                /\ proc_response' = ProcResponse(proc_event, 200, "enhancement_requested", enhancement_ids)
                /\ proc_calls' = proc_calls
           ELSE IF proc_event.finalize_url = ""
           THEN /\ proc_posts' = proc_posts
                       \o process_debug_all(cb, <<"finalize_call_attempt", "finalize_url_missing",
                                                  "process_completed_success">>)
                /\ proc_response' = ProcResponse(proc_event, 200, "enhancement_requested", <<>>)
                /\ proc_calls' = proc_calls
           ELSE \E outcome \in {"ok", "status_400_or_above", "raised"} :
                /\ proc_posts' = proc_posts
                       \o process_debug(cb, "finalize_call_attempt", "INFO")
                       \o finalize_call_reported(cb, outcome)
                       \o process_debug(cb, "process_completed_success", "INFO")
                /\ proc_response' = ProcResponse(proc_event, 200, "enhancement_requested", <<>>)
                /\ proc_calls' = proc_calls \o
                       <<[call |-> "finalize", outcome |-> outcome]>>
    /\ proc_pc' = "done"
    /\ UNCHANGED <<proc_event, enhancement_ids, bracket_idx, proc_counts>>
    /\ UNCHANGED <<disc_vars, fin_vars, gw_vars, lib_vars, after_proc_vars>>

(***************************************************************************)
(* Discovery, process_page mode (src/packages/snapflow/discovery)          *)
(***************************************************************************)
\* discovery's MAX_RETRIES, RETRY_DELAY (seconds) and MAX_THREADS
DOWNLOAD_MAX_RETRIES == 3
RETRY_DELAY == 2
MAX_THREADS == 3

\* the files of all_files: with or without a path
PageFileKinds == {[path_lower |-> "/p"], [path_lower |-> ""]}

RECURSIVE PageFileLists(_)
PageFileLists(n) ==
    IF n = 0 THEN {<<>>}
    ELSE LET shorter == PageFileLists(n - 1)
         IN  shorter \cup {Append(fs, f) : fs \in {t \in shorter : Len(t) = n - 1},
                                           f \in PageFileKinds}

\* page_number 0 stands for a missing page_number
PageEvents ==
    {[page_number |-> pn, files_per_page |-> fpp, all_files |-> fs] :
        pn \in 0..2, fpp \in 1..MaxPageFiles, fs \in PageFileLists(MaxPageFiles)}

NoPageEvent == [page_number |-> 0, files_per_page |-> 0, all_files |-> <<>>]
NoPageResponse == [statusCode |-> 0, status |-> "", metadata |-> <<>>, keys |-> {}]
NoFuture ==
    [state |-> "pending", attempt |-> 1, downloads |-> 0, slept |-> 0, result |-> "none",
     client |-> "none"]

PageIdle ==
    /\ page_event = NoPageEvent
    /\ page_pc = "idle"
    /\ page_files = <<>>
    /\ futures = <<>>
    /\ extracted_metadata = <<>>
    /\ page_response = NoPageResponse

\* all_files[start_idx:end_idx]
slice(s, start_idx, end_idx) ==
    LET last == IF end_idx < Len(s) THEN end_idx ELSE Len(s)
    IN  IF start_idx >= last THEN <<>> ELSE SubSeq(s, start_idx + 1, last)

\* main in process_page mode, the storage provider created: the page's
\* files are submitted to the pool, or the request is answered 500
page_main ==
    /\ page_pc = "idle"
    /\ \E ev \in PageEvents :
         /\ page_event' = ev
         /\ IF ev.page_number = 0 \/ ev.all_files = <<>>
            THEN /\ page_response' =
                        [statusCode |-> 500, status |-> "error", metadata |-> <<>>,
                         keys |-> {"error", "version", "correlation_id"}]
                 /\ page_pc' = "done"
                 /\ UNCHANGED <<page_files, futures>>
            ELSE LET start_idx == (ev.page_number - 1) * ev.files_per_page
                     files == slice(ev.all_files, start_idx, start_idx + ev.files_per_page)
                 IN  /\ page_files' = files
                     /\ futures' = [k \in 1..Len(files) |-> NoFuture]
                     /\ page_pc' = "running"
                     /\ page_response' = page_response
    /\ UNCHANGED extracted_metadata
    /\ UNCHANGED <<disc_vars, fin_vars, gw_vars, lib_vars, proc_vars>>

\* variant: one retry only
retry_once(attempt) == attempt < 2

\* _download_and_extract_exif, "if attempt < MAX_RETRIES"
retry_wanted(attempt) == attempt < DOWNLOAD_MAX_RETRIES

\* the workers of the pool that are busy
busy == {k \in 1..Len(futures) : futures[k].state \in {"running", "downloading"}}

\* executor.submit(_download_and_extract_exif, storage_provider, f): the
\* storage object the call for file k is given, the one main created
submitted_storage(k) == "storage"

\* _download_and_extract_exif for file k, a worker of the pool being free:
\* the call of storage_provider.download_file (or download_file_partial)
\* is entered, at the first attempt or after the sleep that follows a failure
download_file_call(k) ==
    /\ page_pc = "running"
    /\ k \in 1..Len(futures)
    /\ page_files[k].path_lower # ""
    /\ \/ futures[k].state = "running"
       \/ futures[k].state = "pending" /\ Cardinality(busy) < MAX_THREADS
    /\ futures' = [futures EXCEPT ![k].state = "downloading",
                                  ![k].client = submitted_storage(k)]
    /\ UNCHANGED <<page_event, page_pc, page_files, extracted_metadata, page_response>>
    /\ UNCHANGED <<disc_vars, fin_vars, gw_vars, lib_vars, proc_vars>>

\* one call of _download_and_extract_exif for file k of the page: the file
\* has no path, or the download returns a header with or without a date,
\* or it raises; after an exception the worker sleeps RETRY_DELAY and calls
\* again, or gives the file up
download_and_extract_exif(k) ==
    /\ page_pc = "running"
    /\ k \in 1..Len(futures)
    /\ LET f == [futures[k] EXCEPT !.client = "none"]
           finish(downloads, result) ==
               futures' = [futures EXCEPT ![k] =
                              [f EXCEPT !.state = "finished", !.downloads = downloads,
                                        !.result = result]]
       IN  IF page_files[k].path_lower = ""
           THEN /\ futures[k].state = "pending" /\ Cardinality(busy) < MAX_THREADS
                /\ finish(f.downloads, "no_path")
           ELSE /\ futures[k].state = "downloading"
                /\ \E outcome \in {"date_taken", "no_date", "raises"} :
                    IF outcome = "date_taken" THEN finish(f.downloads + 1, "metadata")
                    ELSE IF outcome = "no_date" THEN finish(f.downloads + 1, "no_date")
                    ELSE IF retry_wanted(f.attempt)
                    THEN futures' = [futures EXCEPT ![k] =
                                        [f EXCEPT !.state = "running",
                                                  !.downloads = f.downloads + 1,
                                                  !.slept = f.slept + RETRY_DELAY,
                                                  !.attempt = f.attempt + 1]]
                    ELSE finish(f.downloads + 1, "download_failed")
    /\ UNCHANGED <<page_event, page_pc, page_files, extracted_metadata, page_response>>
    /\ UNCHANGED <<disc_vars, fin_vars, gw_vars, lib_vars, proc_vars>>

\* _handle_process_page_mode, one pass of "for future in as_completed(...)"
page_collect(k) ==
    /\ page_pc = "running"
    /\ k \in 1..Len(futures)
    /\ futures[k].state = "finished"
    /\ futures' = [futures EXCEPT ![k].state = "collected"]
    /\ extracted_metadata' =
           IF futures[k].result = "metadata" THEN Append(extracted_metadata, k)
           ELSE extracted_metadata
    /\ UNCHANGED <<page_event, page_pc, page_files, page_response>>
    /\ UNCHANGED <<disc_vars, fin_vars, gw_vars, lib_vars, proc_vars>>

\* _handle_process_page_mode returns and main answers 200 with the result
page_return ==
    /\ page_pc = "running"
    /\ \A k \in 1..Len(futures) : futures[k].state = "collected"
    /\ page_response' =
           [statusCode |-> 200, status |-> "page_processed", metadata |-> extracted_metadata,
            keys |-> {"status", "page_number", "session_id", "processed_count", "metadata"}]
    /\ page_pc' = "done"
    /\ UNCHANGED <<page_event, page_files, futures, extracted_metadata>>
    /\ UNCHANGED <<disc_vars, fin_vars, gw_vars, lib_vars, proc_vars>>

\* the stages modelled after the library, at rest
ExtIdle == ProcIdle /\ PageIdle

(***************************************************************************)
(* Finalize stage (packages/snapflow/finalize/__main__.py)                 *)
(***************************************************************************)
MAX_RETRIES == 3

TimeoutError == "Enhancement still in progress after 3 retry attempts"

\* a result record of _process_enhancement or of the timeout handling
Result(info, status, error, retry_needed) ==
    [enhancement_id |-> info.enhancement_id, bracket_index |-> info.bracket_index,
     status |-> status, error |-> error, retry_needed |-> retry_needed]

\* variant: any successful upload makes the job completed
job_result_ignoring_failures(listing_id, completed, retry_count_, correlation_id) ==
    LET IsUploaded(r) == r.status = "uploaded"
        IsFailed(r) == r.status # "uploaded"
        successful_uploads == SelectSeq(completed, IsUploaded)
        failed_results == SelectSeq(completed, IsFailed)
    IN  [status |-> IF successful_uploads # <<>> THEN "job_completed" ELSE "job_failed",
         listing_id |-> listing_id,
         successful_enhancements |-> Len(successful_uploads),
         failed_enhancements |-> Len(failed_results),
         enhanced_images |->
             [k \in 1..Len(successful_uploads) |-> successful_uploads[k].bracket_index],
         failed_brackets |->
             [k \in 1..Len(failed_results) |->
                 [bracket_index |-> failed_results[k].bracket_index,
                  error |-> failed_results[k].error]],
         retry_attempts |-> retry_count_,
         correlation_id |-> correlation_id]

\* _create_standardized_job_result
create_standardized_job_result(listing_id, completed, retry_count_, correlation_id) ==
    LET IsUploaded(r) == r.status = "uploaded"
        IsFailed(r) == r.status # "uploaded"
        successful_uploads == SelectSeq(completed, IsUploaded)
        failed_results == SelectSeq(completed, IsFailed)
        job_status ==
            IF successful_uploads # <<>> /\ failed_results = <<>> THEN "job_completed"
            ELSE IF successful_uploads # <<>> /\ failed_results # <<>> THEN "job_partial_success"
            ELSE "job_failed"
    IN  [status |-> job_status,
         listing_id |-> listing_id,
         successful_enhancements |-> Len(successful_uploads),
         failed_enhancements |-> Len(failed_results),
         enhanced_images |->
             [k \in 1..Len(successful_uploads) |-> successful_uploads[k].bracket_index],
         failed_brackets |->
             [k \in 1..Len(failed_results) |->
                 [bracket_index |-> failed_results[k].bracket_index,
                  error |-> failed_results[k].error]],
         retry_attempts |-> retry_count_,
         correlation_id |-> correlation_id]

\* what one call of _process_enhancement meets: the status the provider's
\* get_enhancement_status reports (or the call raising), whether a completed
\* status carries enhanced_image_url, whether download and upload succeed
Outcomes ==
    {[status |-> "completed", url |-> TRUE, transfer |-> TRUE],
     [status |-> "completed", url |-> TRUE, transfer |-> FALSE],
     [status |-> "completed", url |-> FALSE, transfer |-> FALSE],
     [status |-> "in_progress", url |-> FALSE, transfer |-> FALSE],
     [status |-> "processing", url |-> FALSE, transfer |-> FALSE],
     [status |-> "failed", url |-> FALSE, transfer |-> FALSE],
     [status |-> "pending", url |-> FALSE, transfer |-> FALSE],
     [status |-> "raise", url |-> FALSE, transfer |-> FALSE]}

NotPolled == [status |-> "none", url |-> FALSE, transfer |-> FALSE]

\* _process_enhancement: the result record
process_enhancement(info, o) ==
    IF o.status = "raise" THEN Result(info, "api_error", "status check raised", FALSE)
    ELSE IF o.status = "completed"
    THEN IF o.url
         THEN IF o.transfer THEN Result(info, "uploaded", "", FALSE)
              ELSE Result(info, "download_failed", "download or upload raised", FALSE)
         ELSE Result(info, "completed_no_url", "No enhanced_image_url in response", FALSE)
    ELSE IF o.status = "in_progress" \/ o.status = "processing"
    THEN Result(info, "in_progress", "", TRUE)
    ELSE IF o.status = "failed" THEN Result(info, "failed", "Enhancement failed", FALSE)
    ELSE Result(info, "unknown_status", "Unknown status", FALSE)

\* _process_enhancement: the debug notifications it sends
process_enhancement_debug(callback_webhook, level, o) ==
    IF o.status = "raise" THEN send_debug(callback_webhook, level, "api_error", "ERROR")
    ELSE IF o.status = "completed" /\ o.url
    THEN IF o.transfer THEN send_debug(callback_webhook, level, "bracket_completed", "INFO")
         ELSE send_debug(callback_webhook, level, "download_upload_error", "ERROR")
    ELSE <<>>

\* fields of the request; "" and <<>> stand for an absent key
NoFields ==
    [job_id |-> "", listing_id |-> "", callback_webhook |-> "", enhancement_ids |-> <<>>,
     storage_provider |-> "", enhancement_provider |-> "", correlation_id |-> ""]

NoEvent == [top |-> NoFields, body_kind |-> "none", body |-> NoFields]

\* tickets as the process stage records them: the k-th ticket, for bracket
\* index k - 1, or k when the first bracket produced no ticket
TicketLists ==
    {[k \in 1..n |-> [enhancement_id |-> k, bracket_index |-> k - 1 + skip]] :
        n \in 1..MaxTickets, skip \in 0..1}

Payloads ==
    [job_id : {"", "job-1"}, listing_id : {"", "listing-1"},
     callback_webhook : {"", "https://callback"},
     enhancement_ids : {<<>>} \cup {t \in TicketLists : t[1].bracket_index = 0},
     storage_provider : {"", "google_drive", "s3"},
     enhancement_provider : {"", "autohdr"},
     correlation_id : {"", "corr-1"}]

\* the envelope shapes: fields at the top level, a body object, a body
\* holding a JSON string, a body holding a string that is no JSON
Events ==
    {[top |-> p, body_kind |-> "none", body |-> NoFields] : p \in Payloads}
        \cup {[top |-> NoFields, body_kind |-> k, body |-> p] :
                 k \in {"obj", "str", "badstr"}, p \in Payloads}

\* main, "Parse event data": the dictionary main reads its fields from
parse_event(ev) ==
    LET first == IF ev.body_kind \in {"obj", "str"} THEN ev.body ELSE ev.top
    IN  IF first.job_id = "" /\ ev.top.job_id # "" THEN ev.top ELSE first

NoFinResponse == [statusCode |-> 0, status |-> "", retry_attempts |-> 0, correlation_id |-> ""]

FinIdle ==
    /\ event = NoEvent
    /\ event_data = NoFields
    /\ fin_pc = "idle"
    /\ notifier = "none"
    /\ callbacks = <<>>
    /\ debug_posts = <<>>
    /\ pending_retries = <<>>
    /\ still_pending = <<>>
    /\ completed_enhancements = <<>>
    /\ retry_count = 0
    /\ idx = 0
    /\ fin_response = NoFinResponse
    /\ passes = 0
    /\ polls = <<>>

loop_vars == <<pending_retries, still_pending, completed_enhancements, retry_count, idx,
               passes, polls>>

\* the correlation id main uses: the event's, or a fresh uuid
correlation_of(ev) == IF ev.top.correlation_id # "" THEN ev.top.correlation_id ELSE "uuid"

\* main, from entry to the creation of the notifier: the event is parsed and
\* the fields extracted
finalize_parse ==
    /\ fin_pc = "idle"
    /\ \E ev \in Events :
        /\ event' = ev
        /\ event_data' = parse_event(ev)
    /\ fin_pc' = "parsed"
    /\ UNCHANGED <<notifier, callbacks, debug_posts, fin_response>>
    /\ UNCHANGED loop_vars
    /\ UNCHANGED <<disc_vars, gw_vars, lib_vars, ext_vars>>

\* the keywords main passes to WebhookNotifier(...)
FinalizeNotifierKwargs ==
    {"callback_webhook", "job_id", "listing_id", "client_id", "correlation_id",
     "notification_level", "function_name", "version"}

\* main, "Create notifier": the constructor call; a TypeError leaves
\* notifier None and goes to the exception handler
finalize_create_notifier ==
    /\ fin_pc = "parsed"
    /\ IF webhook_notifier_init_raises(FinalizeNotifierKwargs)
       THEN /\ fin_pc' = "except"
            /\ UNCHANGED notifier
       ELSE /\ fin_pc' = "started"
            /\ notifier' = "minimal"
    /\ UNCHANGED <<event, event_data, callbacks, debug_posts, fin_response>>
    /\ UNCHANGED loop_vars
    /\ UNCHANGED <<disc_vars, gw_vars, lib_vars, ext_vars>>

\* main, "except Exception": the failure callback is sent only if a notifier
\* exists; the response is 500
finalize_except ==
    /\ fin_pc = "except"
    /\ callbacks' =
          IF notifier # "none"
          THEN callbacks \o send_business(event_data.callback_webhook,
                   [create_standardized_job_result(
                        IF event_data.listing_id = "" THEN "unknown" ELSE event_data.listing_id,
                        <<>>, 0, correlation_of(event))
                    EXCEPT !.status = "job_failed",
                           !.failed_brackets = <<[bracket_index |-> -1, error |-> "Function error"]>>])
          ELSE callbacks
    /\ fin_response' = [statusCode |-> 500, status |-> "error", retry_attempts |-> 0,
                        correlation_id |-> correlation_of(event)]
    /\ fin_pc' = "done"
    /\ UNCHANGED <<event, event_data, notifier, debug_posts>>
    /\ UNCHANGED loop_vars
    /\ UNCHANGED <<disc_vars, gw_vars, lib_vars, ext_vars>>

(***************************************************************************)
(* Finalize: the retry loop and the final result (main, "PROCESS           *)
(* ENHANCEMENTS WITH RETRY LOGIC" and "SEND FINAL RESULT").  The loop is   *)
(* entered with the notifier constructed and both providers created; each  *)
(* status check meets one of Outcomes.                                     *)
(***************************************************************************)
\* variant: one pass too many (retry_count <= MAX_RETRIES + 1)
loop_continues_once_more(pending, retry_count_) ==
    pending # <<>> /\ retry_count_ <= MAX_RETRIES + 1

\* the while condition
loop_continues(pending, retry_count_) ==
    pending # <<>> /\ retry_count_ <= MAX_RETRIES

\* variant: each ticket left pending is recorded twice
timeout_results_twice(pending) ==
    [k \in 1..(2 * Len(pending)) |->
        Result(pending[(k + 1) \div 2], "timeout", TimeoutError, FALSE)]

\* variant: tickets left pending are not recorded
timeout_results_none(pending) == SubSeq(pending, 1, 0)

\* "Handle any remaining in-progress as timeouts"
timeout_results(pending) ==
    [k \in 1..Len(pending) |-> Result(pending[k], "timeout", TimeoutError, FALSE)]

JobStarted ==
    [status |-> "job_started", listing_id |-> "listing-1", successful_enhancements |-> 0,
     failed_enhancements |-> 0, enhanced_images |-> <<>>, failed_brackets |-> <<>>,
     retry_attempts |-> 0, correlation_id |-> "corr-1"]

\* the state in which main reaches the loop: fields validated, job_started
\* and finalize_processing_started sent, providers created
InitPoll ==
    /\ DiscIdle /\ GwIdle /\ LibIdle /\ ExtIdle
    /\ \E t \in TicketLists :
         /\ event_data = [NoFields EXCEPT !.job_id = "job-1", !.listing_id = "listing-1",
                                          !.callback_webhook = "https://callback",
                                          !.enhancement_ids = t,
                                          !.correlation_id = "corr-1"]
         /\ event = [top |-> event_data, body_kind |-> "none", body |-> NoFields]
    /\ fin_pc = "providers_ready"
    /\ notifier = "minimal"
    /\ callbacks = <<JobStarted>>
    /\ debug_posts = <<"finalize_processing_started">>
    /\ pending_retries = <<>>
    /\ still_pending = <<>>
    /\ completed_enhancements = <<>>
    /\ retry_count = 0
    /\ idx = 0
    /\ fin_response = NoFinResponse
    /\ passes = 0
    /\ polls = <<>>

finalize_loop_init ==
    /\ fin_pc = "providers_ready"
    /\ completed_enhancements' = <<>>
    /\ pending_retries' = event_data.enhancement_ids
    /\ retry_count' = 0
    /\ polls' = [k \in 1..Len(event_data.enhancement_ids) |-> [checks |-> 0, last |-> NotPolled]]
    /\ fin_pc' = "while"
    /\ UNCHANGED <<event, event_data, notifier, callbacks, debug_posts, still_pending, idx,
                   fin_response, passes>>
    /\ UNCHANGED <<disc_vars, gw_vars, lib_vars, ext_vars>>

\* the while test and, when it holds, the head of the pass (retry
\* notification, sleep, still_pending = [])
finalize_while ==
    /\ fin_pc = "while"
    /\ IF loop_continues(pending_retries, retry_count)
       THEN /\ debug_posts' =
                  IF retry_count > 0
                  THEN debug_posts \o send_debug(event_data.callback_webhook, notifier,
                                                 "retry_attempt", "INFO")
                  ELSE debug_posts
            /\ still_pending' = <<>>
            /\ idx' = 1
            /\ passes' = passes + 1
            /\ fin_pc' = "for"
       ELSE /\ fin_pc' = "timeouts"
            /\ UNCHANGED <<debug_posts, still_pending, idx, passes>>
    /\ UNCHANGED <<event, event_data, notifier, callbacks, pending_retries,
                   completed_enhancements, retry_count, fin_response, polls>>
    /\ UNCHANGED <<disc_vars, gw_vars, lib_vars, ext_vars>>

\* one iteration of the for loop: _process_enhancement on the next pending
\* ticket and the bookkeeping of its result
finalize_check ==
    /\ fin_pc = "for"
    /\ idx <= Len(pending_retries)
    /\ \E o \in Outcomes :
         LET enhancement_info == pending_retries[idx]
             result == process_enhancement(enhancement_info, o)
         IN  /\ IF result.retry_needed
                THEN /\ still_pending' = Append(still_pending, enhancement_info)
                     /\ UNCHANGED completed_enhancements
                ELSE /\ completed_enhancements' = Append(completed_enhancements, result)
                     /\ UNCHANGED still_pending
             /\ debug_posts' = debug_posts \o
                    process_enhancement_debug(event_data.callback_webhook, notifier, o)
             /\ polls' = [polls EXCEPT ![enhancement_info.enhancement_id] =
                             [checks |-> @.checks + 1, last |-> o]]
    /\ idx' = idx + 1
    /\ UNCHANGED <<event, event_data, fin_pc, notifier, callbacks, pending_retries, retry_count,
                   fin_response, passes>>
    /\ UNCHANGED <<disc_vars, gw_vars, lib_vars, ext_vars>>

\* the end of a pass
finalize_pass_end ==
    /\ fin_pc = "for"
    /\ idx > Len(pending_retries)
    /\ pending_retries' = still_pending
    /\ retry_count' = retry_count + 1
    /\ fin_pc' = "while"
    /\ UNCHANGED <<event, event_data, notifier, callbacks, debug_posts, still_pending,
                   completed_enhancements, idx, fin_response, passes, polls>>
    /\ UNCHANGED <<disc_vars, gw_vars, lib_vars, ext_vars>>

\* after the loop: timeouts, the job result, its callback, the response
finalize_finish ==
    /\ fin_pc = "timeouts"
    /\ LET completed == completed_enhancements \o timeout_results(pending_retries)
           job_result == create_standardized_job_result(
                             event_data.listing_id, completed, retry_count,
                             correlation_of(event))
       IN  /\ completed_enhancements' = completed
           /\ callbacks' = callbacks \o send_business(event_data.callback_webhook, job_result)
           /\ fin_response' = [statusCode |-> 200, status |-> job_result.status,
                               retry_attempts |-> retry_count,
                               correlation_id |-> correlation_of(event)]
    /\ fin_pc' = "done"
    /\ UNCHANGED <<event, event_data, notifier, debug_posts, pending_retries, still_pending,
                   retry_count, idx, passes, polls>>
    /\ UNCHANGED <<disc_vars, gw_vars, lib_vars, ext_vars>>

(***************************************************************************)
(* Specifications                                                          *)
(***************************************************************************)
AllIdle == DiscIdle /\ FinIdle /\ GwIdle /\ LibIdle /\ ExtIdle

\* the gateway: one request, its dispatch thread running beside main
NextGateway ==
    gateway_main \/ gateway_respond \/ dispatch_async_try \/ dispatch_async_finally

SpecGateway == AllIdle /\ [][NextGateway]_vars

\* the dispatch thread runs to its end once started
FairGateway ==
    AllIdle /\ [][NextGateway]_vars
        /\ WF_vars(gateway_respond) /\ WF_vars(dispatch_async_try)
        /\ WF_vars(dispatch_async_finally)

\* the process stage as shipped
NextProcessMain == process_main

SpecProcessMain == AllIdle /\ [][NextProcessMain]_vars

\* the process stage as written, the notifier taken as created
NextProcess == process_start \/ process_next_bracket \/ process_finish

SpecProcess == AllIdle /\ [][NextProcess]_vars

NextPage ==
    \/ page_main
    \/ \E k \in 1..MaxPageFiles : download_file_call(k)
    \/ \E k \in 1..MaxPageFiles : download_and_extract_exif(k)
    \/ \E k \in 1..MaxPageFiles : page_collect(k)
    \/ page_return

SpecPage == AllIdle /\ [][NextPage]_vars

\* the pool runs every submitted call and main waits for each of them
FairPage ==
    AllIdle /\ [][NextPage]_vars
        /\ WF_vars(\E k \in 1..MaxPageFiles : download_file_call(k))
        /\ WF_vars(\E k \in 1..MaxPageFiles : download_and_extract_exif(k))
        /\ WF_vars(\E k \in 1..MaxPageFiles : page_collect(k))
        /\ WF_vars(page_return)

NextCredentials == call_decrypt_credentials \/ call_mask_credentials

SpecCredentials == AllIdle /\ [][NextCredentials]_vars

NextFileUtils ==
    call_normalize_dropbox_path \/ call_sanitize_filename_prefix \/ call_validate_file_size

SpecFileUtils == AllIdle /\ [][NextFileUtils]_vars

NextNotifier == notifier_init \/ call_send_debug \/ call_send_error \/ call_send_business

SpecNotifier == AllIdle /\ [][NextNotifier]_vars

InitBracket == DiscIdle /\ FinIdle /\ GwIdle /\ LibIdle /\ ExtIdle

NextBracket == main_make_bracket /\ UNCHANGED <<fin_vars, gw_vars, lib_vars, ext_vars>>

SpecBracket == InitBracket /\ [][NextBracket]_vars

InitFinalize == DiscIdle /\ FinIdle /\ GwIdle /\ LibIdle /\ ExtIdle

NextFinalize == finalize_parse \/ finalize_create_notifier \/ finalize_except

SpecFinalize == InitFinalize /\ [][NextFinalize]_vars

NextPoll ==
    \/ finalize_loop_init
    \/ finalize_while
    \/ finalize_check
    \/ finalize_pass_end
    \/ finalize_finish

SpecPoll == InitPoll /\ [][NextPoll]_vars

(***************************************************************************)
(* Properties of make_bracket.  A member of an emitted bracket carries     *)
(* only name and path_lower; path_lower identifies the request's record,   *)
(* whose date_taken gives the member's capture time.                       *)
(***************************************************************************)
Emitted == response.statusCode = 200
Answered == response.statusCode # 0

RecordOf(member) ==
    all_metadata[CHOOSE k \in 1..Len(all_metadata) :
                     all_metadata[k].path_lower = member.path_lower]
CaptureTime(member) == RecordOf(member).date_taken.t
BracketTimes(bracket) == {CaptureTime(bracket[i]) : i \in 1..Len(bracket)}
MinOf(S) == CHOOSE a \in S : \A b \in S : a <= b
MaxOf(S) == CHOOSE a \in S : \A b \in S : a >= b

\* every record of the request is parseable, and all share one timestamp
\* format (process_page emits the "T" format only)
AllParseable == \A k \in 1..Len(all_metadata) : all_metadata[k].date_taken.fmt \in {"T", "sp"}
OneFormat ==
    \A j, k \in 1..Len(all_metadata) :
        all_metadata[j].date_taken.fmt = all_metadata[k].date_taken.fmt

AdjacentGapsWithinDelta ==
    \A n \in 1..Len(response.body) :
        \A t1, t2 \in BracketTimes(response.body[n]) :
            (t1 < t2 /\ ~ \E t3 \in BracketTimes(response.body[n]) : t1 < t3 /\ t3 < t2)
                => t2 - t1 <= time_delta[1]

\* C1 as stated: in every emitted bracket, members adjacent in capture-time
\* order differ by at most the effective time-delta, for any records with
\* valid ISO timestamps.
C1_AnyValidTimestamps == Emitted => AdjacentGapsWithinDelta

\* C1 amended: when all records carry their timestamps in one and the same
\* ISO format, members of an emitted bracket that are adjacent in
\* capture-time order differ by at most the effective time-delta.
C1_GapsWithinDelta == (Emitted /\ OneFormat) => AdjacentGapsWithinDelta

\* C1 witness: a one-format request answered with a bracket whose members
\* have different capture times, and with a second bracket.
C1_Witness ==
    /\ Emitted /\ OneFormat /\ Len(response.body) >= 2
    /\ \E n \in 1..Len(response.body) : Cardinality(BracketTimes(response.body[n])) >= 2

\* C2: for consecutive emitted brackets, the earliest capture time of the
\* later one exceeds the latest capture time of the earlier one by strictly
\* more than the effective time-delta (stated on one-format requests).
C2_BracketsSeparated ==
    (Emitted /\ OneFormat) =>
        \A n \in 1..(Len(response.body) - 1) :
            MinOf(BracketTimes(response.body[n + 1])) - MaxOf(BracketTimes(response.body[n]))
                > time_delta[1]

\* C3: when every record's timestamp is parseable, the request is answered
\* with brackets of size >= 1 whose sizes sum to the number of records, each
\* record being in exactly one bracket.
C3_Partition ==
    (Answered /\ all_metadata # <<>> /\ AllParseable) =>
        /\ Emitted
        /\ \A n \in 1..Len(response.body) : Len(response.body[n]) >= 1
        /\ \A k \in 1..Len(all_metadata) :
              Cardinality({<<n, i>> \in (1..Len(response.body)) \X (1..MaxFiles + 1) :
                              /\ i <= Len(response.body[n])
                              /\ response.body[n][i] =
                                     [name |-> all_metadata[k].name,
                                      path_lower |-> all_metadata[k].path_lower]}) = 1
        /\ \A n \in 1..Len(response.body) : \A i \in 1..Len(response.body[n]) :
              \E k \in 1..Len(all_metadata) :
                  all_metadata[k].path_lower = response.body[n][i].path_lower

\* C3 witness: three parseable records answered with two brackets.
C3_Witness ==
    /\ Emitted /\ AllParseable /\ Len(all_metadata) = 3 /\ Len(response.body) = 2

\* C4: brackets are emitted in ascending order of their earliest capture
\* time, also when records of different brackets carry the same display
\* name (stated on one-format requests).
C4_AscendingByEarliest ==
    (Emitted /\ OneFormat) =>
        \A n \in 1..(Len(response.body) - 1) :
            MinOf(BracketTimes(response.body[n])) <= MinOf(BracketTimes(response.body[n + 1]))

\* the records matching the DJI pattern, by name
DjiNamed == {NameDji, NameDjiMixed}
MajorityDji ==
    2 * Cardinality({k \in 1..Len(all_metadata) : all_metadata[k].name \in DjiNamed})
        > Len(all_metadata)
RequestedOrDefault ==
    IF data.time_delta_seconds.kind \in {"num", "numstr"}
    THEN data.time_delta_seconds.val ELSE 2

\* C5 as stated: the effective time-delta is 10 if and only if strictly more
\* than half of the flattened records match the DJI pattern; otherwise it is
\* the requested value, or 2 when that is absent or not numeric.
C5_TenIffMajority ==
    time_delta # <<>> =>
        /\ (time_delta[1] = 10) <=> MajorityDji
        /\ ~ MajorityDji => time_delta[1] = RequestedOrDefault

\* C5 amended: the effective time-delta is 10 if strictly more than half of
\* the flattened records match the DJI pattern, whatever was requested;
\* otherwise it is the requested value (which may itself be 10), or 2 when
\* that is absent or not numeric.
C5_EffectiveDelta ==
    time_delta # <<>> =>
        /\ MajorityDji => time_delta[1] = 10
        /\ ~ MajorityDji => time_delta[1] = RequestedOrDefault

\* C5 witness: 1 s requested, two of three records match, 10 s used; the
\* mixed-case name is among them.
C5_Witness ==
    /\ time_delta = <<10>> /\ data.time_delta_seconds = [kind |-> "num", val |-> 1]
    /\ Len(all_metadata) = 3 /\ MajorityDji
    /\ \E k \in 1..3 : all_metadata[k].name = NameDjiMixed
    /\ \E k \in 1..3 : all_metadata[k].name = NameDjiJpg

\* C6: a record whose capture time cannot be parsed is dropped and the
\* request is still answered with status 200.
C6_UnparseableDropped ==
    (Answered /\ \E k \in 1..Len(all_metadata) : all_metadata[k].date_taken.fmt = "bad")
        => Emitted

(***************************************************************************)
(* Properties of the finalize stage.                                       *)
(***************************************************************************)
FinalStatuses == {"job_completed", "job_partial_success", "job_failed"}
FinalCallbacks == {k \in 1..Len(callbacks) : callbacks[k].status \in FinalStatuses}
FinalCallback == callbacks[CHOOSE k \in FinalCallbacks : TRUE]
PollDone == fin_pc = "done" /\ fin_response.statusCode = 200

InProgress(o) == o.status \in {"in_progress", "processing"}
UploadedOutcome(o) == o.status = "completed" /\ o.url /\ o.transfer

C10_ExactlyOneFinalCallback ==
    (fin_pc = "done" /\ event_data.callback_webhook # "") => Cardinality(FinalCallbacks) = 1


(***************************************************************************)
(* Properties of the gateway.                                              *)
(***************************************************************************)
\* the data main works on for the request in gw_event
gw_data == parse_event_data(gw_event).data

\* some mandatory field is missing (absent or empty) from the request
MandatoryMissing ==
    \/ \E f \in {"client_id", "listing_id", "callback_webhook", "brackets_data"} :
         f \notin DOMAIN gw_data \/ gw_data[f] \in {"", NoneValue}
    \/ ~ \E f \in {"dropbox_refresh_token_encrypted", "google_drive_refresh_token_encrypted"} :
         f \in DOMAIN gw_data /\ gw_data[f] \notin {"", NoneValue}
    \/ ~ \E f \in {"fotello_api_key_encrypted", "autohdr_api_key_encrypted"} :
         f \in DOMAIN gw_data /\ gw_data[f] \notin {"", NoneValue}
    \/ ~ \E f \in {"dropbox_destination_folder", "google_drive_destination_folder_id"} :
         f \in DOMAIN gw_data /\ gw_data[f] \notin {"", NoneValue}

\* C11: a request that lacks a mandatory field (client_id, listing_id,
\* callback_webhook, brackets_data, storage credentials, enhancement
\* credentials, destination folder) is answered with status 400; the
\* dispatch thread is never started, nothing is posted and no job id is
\* generated.
C11_MissingFieldRejected ==
    (gw_pc # "idle" /\ MandatoryMissing) =>
        /\ gw_response.statusCode = 400
        /\ gw_response.job_id = ""
        /\ job_id = ""
        /\ thread_pc = "none"
        /\ http_posts = <<>>

\* a request complete but for its destination folder has been rejected
C11_Witness ==
    /\ gw_pc = "done"
    /\ gw_response.statusCode = 400
    /\ DOMAIN IdentityFields \subseteq DOMAIN gw_data
    /\ "dropbox_refresh_token_encrypted" \in DOMAIN gw_data
    /\ "fotello_api_key_encrypted" \in DOMAIN gw_data
    /\ "dropbox_destination_folder" \notin DOMAIN gw_data
    /\ "google_drive_destination_folder_id" \notin DOMAIN gw_data

\* the process stage answered the dispatch with a status below 400
DispatchAnswered ==
    \E i \in DOMAIN http_posts :
        http_posts[i].url = gw_event.process_url /\ http_posts[i].status = "ok"

\* the dispatch_failed callback was posted to the request's callback URL
DispatchFailedPosted ==
    \E i \in DOMAIN http_posts :
        /\ http_posts[i].status = "dispatch_failed"
        /\ http_posts[i].url = get(gw_data, "callback_webhook")
        /\ http_posts[i].url # NoneValue

DecryptedCredentialFields ==
    {"dropbox_app_key", "dropbox_app_secret", "dropbox_refresh_token",
     "google_drive_client_id", "google_drive_client_secret", "google_drive_refresh_token",
     "fotello_api_key", "autohdr_api_key"}

\* C13: when the dispatch thread has ended, whatever the outcome of the POST
\* to the process stage, the payload it held has none of the decrypted
\* credential fields.
C13_ThreadPayloadScrubbed ==
    thread_pc = "ended" => DOMAIN thread_payload \cap DecryptedCredentialFields = {}

\* the thread ended after a POST that raised, and the payload it posted
\* carried storage and enhancement credentials
C13_Witness ==
    /\ thread_pc = "ended"
    /\ Len(http_posts) >= 1
    /\ http_posts[1].status = "raised"
    /\ {"dropbox_app_key", "autohdr_api_key"} \subseteq DOMAIN http_posts[1].body
    /\ "correlation_id" \in DOMAIN thread_payload

\* C14: when main returns the 202 response, neither decrypted_data nor
\* process_payload holds a decrypted credential field of any provider.
C14_RetainedScrubbed ==
    gw_response.statusCode = 202 =>
        (DOMAIN decrypted_data \cup DOMAIN process_payload) \cap DecryptedCredentialFields = {}


(***************************************************************************)
(* Properties of the credential functions.                                 *)
(***************************************************************************)
\* the bundles nested in a dictionary
bundles_of(d) == {d[n] : n \in NestedKeys \cap DOMAIN d}

\* no key of the dictionary or of a bundle nested in it ends in _encrypted
NoEncryptedKey(d) ==
    /\ \A k \in DOMAIN d : ~ endswith_encrypted(k)
    /\ \A b \in bundles_of(d) : \A k \in DOMAIN b : ~ endswith_encrypted(k)

\* C15: after decrypt_credentials has returned, the result has no key ending
\* in _encrypted; in the legacy shape each <service>_<field>_encrypted value
\* is found decrypted under <service>_<field>, and the other fields are
\* unchanged.
C15_NoEncryptedSurvives ==
    (cred_result.called /\ ~ cred_result.raised) =>
        /\ NoEncryptedKey(cred_result.value)
        /\ DOMAIN cred_data \cap NestedKeys = {} =>
             /\ \A f \in DOMAIN all_encrypted_fields \cap DOMAIN cred_data :
                    /\ cred_data[f] \in DOMAIN fernet_plaintext
                    /\ all_encrypted_fields[f] \in DOMAIN cred_result.value
                    /\ cred_result.value[all_encrypted_fields[f]] = fernet_plaintext[cred_data[f]]
             /\ \A k \in DOMAIN cred_data \ DOMAIN all_encrypted_fields :
                    k \in DOMAIN cred_result.value /\ cred_result.value[k] = cred_data[k]

\* the string values of a dictionary and of the bundles nested in it
values_of(d) ==
    {d[k] : k \in DOMAIN d \ NestedKeys} \cup UNION {{b[k] : k \in DOMAIN b} : b \in bundles_of(d)}

\* the plaintexts decrypt_credentials produced: the values of the result
\* under the names of decrypted fields
decrypted_plaintexts(d) ==
    {d[k] : k \in DOMAIN d \cap {all_encrypted_fields[f] : f \in DOMAIN all_encrypted_fields}}
    \cup UNION {{b[k] : k \in DOMAIN b \cap {replace_encrypted[f] : f \in DOMAIN replace_encrypted}} :
                   b \in bundles_of(d)}

\* C16: no plaintext of a decrypted credential field of decrypt(x), at the
\* top level or inside a nested bundle, is a value of
\* mask_credentials(decrypt(x)).
C16_NoPlaintextInMask ==
    cred_masked.masked =>
        \A secret \in decrypted_plaintexts(cred_result.value) :
            truthy(secret) => secret \notin values_of(cred_masked.value)


(***************************************************************************)
(* Properties of the file utilities.                                       *)
(***************************************************************************)
\* C17: normalize_dropbox_path is idempotent: applied to its own result it
\* returns that result.
C17_NormalizeIdempotent ==
    util_call.fn = "normalize_dropbox_path" =>
        /\ util_result = normalize_dropbox_path(util_call.path)
        /\ normalize_dropbox_path(util_result) = util_result

\* a path with backslashes, a duplicate separator, an upper-case letter and
\* a trailing separator has been normalized
C17_Witness ==
    /\ util_call.fn = "normalize_dropbox_path"
    /\ util_call.path = <<"\\", "/", "A", "\\">>
    /\ util_result = <<"/", "a">>

\* the characters of the model that are in [A-Za-z0-9_-]
AllowedPrefixChars == {"a", "Z", "7", "_", "-"}

\* C18: the result of sanitize_filename_prefix has only characters of
\* [A-Za-z0-9_-], is at most 50 characters long and neither starts nor ends
\* with an underscore.
C18_SanitizedPrefix ==
    util_call.fn = "sanitize_filename_prefix" =>
        /\ \A k \in 1..Len(util_result) : util_result[k] \in AllowedPrefixChars
        /\ Len(util_result) <= 50
        /\ util_result # <<>> => (util_result[1] # "_" /\ util_result[Len(util_result)] # "_")

\* the per-type maxima in MiB
MaxMiB ==
    "JPEG" :> 50 @@ "PNG" :> 100 @@ "OTHER" :> 75 @@ "TIFF" :> 300 @@ "RAW" :> 250 @@
    "CR3" :> 250

NeverFiltered ==
    \/ notifier_call.method \in {"send_debug", "send_error"} /\ notifier_call.log_level = "ERROR"
    \/ notifier_call.method = "send_debug" /\ notifier_call.status \in CRITICAL_NOTIFICATIONS
    \/ notifier_call.method \in {"send_business", "send_job_result"}

\* C20: with a callback URL, at every notification level, an event of
\* severity ERROR, an event whose name is in the critical set and a business
\* notification (send_business, send_job_result) are each posted.
C20_AlwaysDelivered ==
    (self_notifier.callback_webhook # "" /\ NeverFiltered) =>
        \E i \in DOMAIN notifier_posts : notifier_posts[i].status = notifier_call.status

\* at errors_only a critical event of severity INFO has been posted
C20_Witness ==
    /\ self_notifier.callback_webhook # ""
    /\ self_notifier.notification_level = "errors_only"
    /\ notifier_call.method = "send_debug"
    /\ notifier_call.log_level = "INFO"
    /\ notifier_call.status = "dispatch_failed"
    /\ notifier_posts = <<[kind |-> "debug", status |-> "dispatch_failed"]>>


\* the event of the call was posted
EventPosted == \E i \in DOMAIN notifier_posts : notifier_posts[i].status = notifier_call.status

\* C21: an event that is neither of severity ERROR nor in the critical set
\* is never posted at errors_only, posted at minimal exactly when its name
\* is in the minimal whitelist, posted at standard exactly when its name is
\* not verbose-only, and always posted at verbose.
C21_LevelFiltering ==
    (/\ self_notifier.callback_webhook # ""
     /\ notifier_call.method = "send_debug"
     /\ notifier_call.log_level # "ERROR"
     /\ notifier_call.status \notin CRITICAL_NOTIFICATIONS) =>
        /\ self_notifier.notification_level = "errors_only" => ~ EventPosted
        /\ self_notifier.notification_level = "minimal" =>
               (EventPosted <=> notifier_call.status \in MINIMAL_ALLOWED)
        /\ self_notifier.notification_level = "standard" =>
               (EventPosted <=> notifier_call.status \notin VERBOSE_ONLY)
        /\ self_notifier.notification_level = "verbose" => EventPosted

\* at standard a verbose-only event of severity DEBUG has been suppressed
C21_Witness ==
    /\ self_notifier.callback_webhook # ""
    /\ self_notifier.notification_level = "standard"
    /\ notifier_call.method = "send_debug"
    /\ notifier_call.log_level = "DEBUG"
    /\ notifier_call.status = "retry_attempt"
    /\ notifier_posts = <<>>

(***************************************************************************)
(* Process stage: properties                                               *)
(***************************************************************************)
\* the event passed validation and both providers were created
ProcAccepted ==
    /\ proc_event.format \in {"direct", "body"}
    /\ proc_event.listing_id # ""
    /\ proc_event.callback_webhook # ""
    /\ proc_event.brackets_data # <<>>
    /\ proc_event.providers_ok

\* the file can be downloaded and is within the limit of its type
FileFetched(f) == f.path_lower # "" /\ f.download >= 0 /\ f.download <= 50 * MiB

\* the files of a bracket for which an upload handle is obtained
HandleFiles(b) == {k \in 1..Len(b.files) : FileFetched(b.files[k]) /\ b.files[k].upload_ok}

\* the indexes of the brackets of an event that yield a ticket
TicketBrackets(ev) ==
    {i \in 0..(Len(ev.brackets_data) - 1) :
        /\ HandleFiles(ev.brackets_data[i + 1]) # {}
        /\ ev.brackets_data[i + 1].request_ok}

ProcCalls(kind) == {k \in 1..Len(proc_calls) : proc_calls[k].call = kind}
ProcPosts(kind, status) ==
    {k \in 1..Len(proc_posts) : proc_posts[k].kind = kind /\ proc_posts[k].status = status}
TicketsOf(ids, i) == {k \in 1..Len(ids) : ids[k].bracket_index = i}

\* C22: an invocation with skip_finalize in which at least one bracket
\* yields a ticket never calls the finalize URL, posts one business
\* callback enhancement_requested, and returns enhancement_requested with
\* one entry of enhancement_ids per bracket that yields a ticket.
C22_SkipFinalizeReturnsTickets ==
    (/\ proc_pc = "done"
     /\ ProcAccepted
     /\ proc_event.skip_finalize
     /\ TicketBrackets(proc_event) # {}) =>
        /\ ProcCalls("finalize") = {}
        /\ Cardinality(ProcPosts("business", "enhancement_requested")) = 1
        /\ proc_response.status = "enhancement_requested"
        /\ Len(proc_response.enhancement_ids) = Cardinality(TicketBrackets(proc_event))
        /\ \A i \in TicketBrackets(proc_event) :
               Cardinality(TicketsOf(proc_response.enhancement_ids, i)) = 1

RemainingFilesUploaded ==
    \A i \in 0..(bracket_idx - 1) :
        LET b == proc_event.brackets_data[i + 1]
        IN  \A k \in 1..Len(b.files) :
                FileFetched(b.files[k]) =>
                    \E c \in ProcCalls("upload_image") :
                        proc_calls[c].bracket_index = i /\ proc_calls[c].file = k

\* the loop is not left before the last bracket
JobNotAborted ==
    (proc_pc = "done" /\ ProcAccepted) => bracket_idx = Len(proc_event.brackets_data)

FinalizeCallFailed ==
    \E c \in ProcCalls("finalize") : proc_calls[c].outcome \in {"status_400_or_above", "raised"}

C27_EveryResponseHasCorrelationId ==
    /\ response.statusCode # 0 => "correlation_id" \in response.keys
    /\ page_response.statusCode # 0 => "correlation_id" \in page_response.keys
    /\ gw_response.statusCode # 0 => gw_response.correlation_id # ""
    /\ proc_response.statusCode # 0 => proc_response.correlation_id # ""
    /\ fin_response.statusCode # 0 => fin_response.correlation_id # ""

\* the data of the request, as main parsed it
GwData == parse_event_data(gw_event).data

\* the request has the identity fields, a destination folder and both
\* credential sub-objects of the nested shape, and the process URL is
\* configured
NestedRequest ==
    /\ gw_event.format \in {"direct", "body"}
    /\ \A f \in DOMAIN IdentityFields : truthy(get(GwData, f))
    /\ truthy(get(GwData, "dropbox_destination_folder"))
           \/ truthy(get(GwData, "google_drive_destination_folder_id"))
    /\ "storage_credentials" \in DOMAIN GwData
    /\ "enhancement_credentials" \in DOMAIN GwData
    /\ gw_event.process_url # ""

\* C28: a request with the credentials in the nested shape and every other
\* mandatory field is decrypted, dispatched and answered 202.
C28_NestedShapeAccepted ==
    (gw_pc = "done" /\ NestedRequest) =>
        /\ gw_response.statusCode = 202
        /\ thread_pc # "none"

\* the request names a storage provider or an enhancement provider that
\* is not supported
UnsupportedSelector ==
    \/ /\ truthy(get(GwData, "storage_provider"))
       /\ GwData["storage_provider"] \notin {"dropbox", "google_drive"}
    \/ /\ truthy(get(GwData, "enhancement_provider"))
       /\ GwData["enhancement_provider"] \notin {"fotello", "autohdr"}

\* C29: a request whose selector names an unsupported provider is answered
\* 400 and no dispatch thread is started for it.
C29_UnsupportedProviderRejected ==
    (gw_event.format # "none" /\ gw_event.process_url # "" /\ UnsupportedSelector) =>
        /\ thread_pc = "none"
        /\ gw_pc = "done" => gw_response.statusCode = 400

\* the downloads of each file of the page are at most DOWNLOAD_MAX_RETRIES,
\* each new attempt follows a sleep of RETRY_DELAY, a file is given up
\* only after DOWNLOAD_MAX_RETRIES failed downloads, and the 200 answer
\* holds the metadata of exactly the files whose header gave a date
DownloadsBounded ==
    /\ \A k \in 1..Len(futures) :
           /\ futures[k].downloads <= DOWNLOAD_MAX_RETRIES
           /\ futures[k].attempt <= DOWNLOAD_MAX_RETRIES
           /\ futures[k].slept = RETRY_DELAY * (futures[k].attempt - 1)
           /\ futures[k].result = "download_failed" =>
                  futures[k].downloads = DOWNLOAD_MAX_RETRIES
    /\ page_response.statusCode = 200 =>
           /\ \A k \in 1..Len(futures) :
                  futures[k].result = "metadata" <=>
                      \E n \in 1..Len(page_response.metadata) : page_response.metadata[n] = k
           /\ Len(page_response.metadata) =
                  Cardinality({k \in 1..Len(futures) : futures[k].result = "metadata"})

\* C30: in process_page mode a file whose download keeps failing is tried
\* at most 3 times, 2 s apart, and then dropped; the invocation terminates
\* and returns the metadata of the other files of the page.
C30_FailingDownloadBounded ==
    /\ []DownloadsBounded
    /\ (page_pc = "running") ~> (page_pc = "done")

\* the first file of a page of two was given up after three downloads and
\* two sleeps, and the answer holds the metadata of the second
C30_Witness ==
    /\ page_pc = "done"
    /\ Len(page_files) = 2
    /\ futures[1].result = "download_failed"
    /\ futures[1].downloads = 3
    /\ futures[1].slept = 4
    /\ page_response.statusCode = 200
    /\ page_response.metadata = <<2>>

\* the verbosity order of the levels
LevelOrder == "errors_only" :> 0 @@ "minimal" :> 1 @@ "standard" :> 2 @@ "verbose" :> 3

\* C40: filtering is monotone in errors_only < minimal < standard <
\* verbose: an event posted at the notifier's level is sent at every higher
\* level, and an event suppressed at it is sent at no lower level.
C40_FilteringMonotone ==
    (/\ self_notifier.callback_webhook # ""
     /\ notifier_call.method = "send_debug") =>
        \A l \in NotificationLevels :
            /\ (EventPosted /\ LevelOrder[l] > LevelOrder[self_notifier.notification_level]) =>
                   should_send(l, notifier_call.status, notifier_call.log_level)
            /\ (~ EventPosted /\ LevelOrder[l] < LevelOrder[self_notifier.notification_level]) =>
                   ~ should_send(l, notifier_call.status, notifier_call.log_level)

\* at minimal a whitelisted event that is not critical has been posted
C40_Witness ==
    /\ self_notifier.callback_webhook # ""
    /\ self_notifier.notification_level = "minimal"
    /\ notifier_call.method = "send_debug"
    /\ notifier_call.status = "bracket_processing_started"
    /\ notifier_call.log_level = "INFO"
    /\ notifier_posts # <<>>

\* the level the request names: its notification_level, minimal when that
\* is no level name
NamedLevel(ev) ==
    IF ev.notification_level \in NotificationLevels THEN ev.notification_level ELSE "minimal"

\* C37: the process notifier filters at the level the request names: the
\* INFO event storage_connecting, sent once the request is validated, is
\* posted exactly when the named level lets it through (at verbose it is).
C37_FiltersAtNamedLevel ==
    (proc_pc \in {"brackets", "done"} /\ proc_event.format \in {"direct", "body"}
     /\ proc_event.listing_id # "" /\ proc_event.callback_webhook # ""
     /\ proc_event.brackets_data # <<>>) =>
        (ProcPosts("debug", "storage_connecting") # {}
            <=> should_send(NamedLevel(proc_event), "storage_connecting", "INFO"))

\* the result records of a ticket
ResultsOf(info) ==
    {k \in 1..Len(completed_enhancements) :
        completed_enhancements[k].enhancement_id = info.enhancement_id}

CredentialFieldsOf(provider) ==
    IF provider = "dropbox"
    THEN {"dropbox_refresh_token", "dropbox_app_key", "dropbox_app_secret"}
    ELSE IF provider = "google_drive"
    THEN {"google_drive_client_id", "google_drive_client_secret", "google_drive_refresh_token"}
    ELSE IF provider = "fotello" THEN {"fotello_api_key"}
    ELSE IF provider = "autohdr" THEN {"autohdr_api_key"}
    ELSE {}

\* the credential fields of the providers selected for the request
SelectedCredentialFields ==
    CredentialFieldsOf(detect_providers(gw_data).storage_provider)
        \cup CredentialFieldsOf(detect_providers(gw_data).enhancement_provider)

\* the dictionary holds every selected credential as it was decrypted
HoldsCredentials(d) ==
    \A f \in SelectedCredentialFields :
        f \in DOMAIN d /\ d[f] = get(decrypt_credentials(gw_data, TRUE).value, f)

\* the POSTs the dispatch thread made to the process stage
ProcessPosts ==
    {i \in DOMAIN http_posts : http_posts[i].status \in {"ok", "status_400_or_above", "raised"}}

\* C39: whichever of main and the dispatch thread runs first, the body posted
\* to the process stage holds the decrypted credentials of the selected
\* providers; until the thread's POST has returned or raised its payload still
\* holds them, and the thread scrubs its payload only after that POST.
C39_PostedBodyKeepsCredentials ==
    /\ \A i \in ProcessPosts : HoldsCredentials(http_posts[i].body)
    /\ thread_pc = "started" => ProcessPosts = {} /\ HoldsCredentials(thread_payload)
    /\ thread_pc = "finally" => ProcessPosts # {} /\ HoldsCredentials(thread_payload)
    /\ thread_pc = "ended" => ProcessPosts # {}

\* main has scrubbed its dictionaries and answered 202, the thread has posted
\* but not yet scrubbed, and the posted body carries the Dropbox and AutoHDR
\* credentials in the clear
C39_Witness ==
    /\ gw_response.statusCode = 202
    /\ DOMAIN process_payload \cap DecryptedCredentialFields \subseteq {"google_drive_client_id"}
    /\ thread_pc = "finally"
    /\ ProcessPosts # {}
    /\ {"dropbox_app_key", "dropbox_refresh_token", "autohdr_api_key"} \subseteq SelectedCredentialFields
    /\ \A i \in ProcessPosts :
          /\ HoldsCredentials(http_posts[i].body)
          /\ truthy(http_posts[i].body["dropbox_refresh_token"])
          /\ truthy(http_posts[i].body["autohdr_api_key"])

\* C36: the correlation id the finalize stage answers with, and puts in its
\* callbacks, is the one carried by the payload it was called with.
C36_SameCorrelationId ==
    event_data.correlation_id # "" =>
        /\ fin_response.statusCode # 0 => fin_response.correlation_id = event_data.correlation_id
        /\ \A i \in DOMAIN callbacks :
              callbacks[i].correlation_id = event_data.correlation_id

\* the downloads in progress: the workers inside a call of the storage object
Downloading == {k \in 1..Len(futures) : futures[k].state = "downloading"}

\* C31: no two header-download workers running at the same time use the
\* same storage client object.
C31_StorageClientNotShared ==
    \A j \in Downloading : \A k \in Downloading :
        j # k => futures[j].client # futures[k].client

(***************************************************************************)
(* Finalize, the destination of an enhanced image                          *)
(* (packages/snapflow/finalize/__main__.py, _process_enhancement; and       *)
(* lib/shared/providers/storage/google_drive_provider.py, upload_file)      *)
(***************************************************************************)
\* str(n) for a number of one digit
str_digit(n) == <<"0", "1", "2", "3", "4", "5", "6", "7", "8", "9">>[n + 1]

\* _process_enhancement, "Build destination filename"
enhanced_filename(bracket_index, filename_prefix, listing_id) ==
    LET sanitized_prefix == sanitize_filename_prefix(filename_prefix)
        prefix_to_use ==
            IF \E k \in DOMAIN filename_prefix : filename_prefix[k] \notin SpaceChars
            THEN IF sanitized_prefix # <<>> THEN sanitized_prefix ELSE listing_id
            ELSE listing_id
    IN  <<str_digit(bracket_index + 1), "_">> \o prefix_to_use \o <<".", "j", "p", "g">>

\* the attributes of a storage provider object: those its class, the base
\* class and connect() set; none of them is provider_name
storage_provider_attributes(kind) ==
    IF kind = "google_drive"
    THEN {"credentials", "service", "_connected", "_token_refreshed", "_shared_drive_id",
          "_token_refresh_callback", "_user_info"}
    ELSE {"client", "_connected", "_access_token", "_user_info"}

\* _process_enhancement, "Handle different path formats for Dropbox vs
\* Google Drive": the path handed to upload_file
dest_path_of(kind, destination_folder, enhanced_filename_) ==
    LET dest_path == destination_folder \o <<"/">> \o enhanced_filename_
    IN  IF "provider_name" \in storage_provider_attributes(kind) /\ kind = "google_drive"
        THEN dest_path
        ELSE IF startswith(dest_path, <<"/">>) THEN dest_path ELSE <<"/">> \o dest_path

\* GoogleDriveProvider.upload_file: remote_path.rsplit('/', 1)
parse_remote_path(remote_path) ==
    LET slashes == {k \in DOMAIN remote_path : remote_path[k] = "/"}
        last == CHOOSE k \in slashes : \A j \in slashes : j <= k
    IN  [folder_id |-> SubSeq(remote_path, 1, last - 1),
         filename |-> SubSeq(remote_path, last + 1, Len(remote_path))]

\* the destination folders of the model: a Dropbox path with or without
\* its leading slash, a Google Drive folder id
DestinationFolders(kind) ==
    IF kind = "google_drive" THEN {<<"f", "1">>} ELSE {<<"/", "e">>, <<"e">>}

\* _process_enhancement, from "Build destination filename" to the call of
\* storage_provider.upload_file: the filename, the path handed over and the
\* folder and name the Google Drive provider parses from such a path
call_upload_enhanced ==
    /\ util_call = NoCall
    /\ \E kind \in {"dropbox", "google_drive"}, bracket_index \in 0..MaxTickets,
          n \in PadLengths, tail \in Strings(PrefixChars, MaxTail) :
         \E destination_folder \in DestinationFolders(kind) :
            LET name == enhanced_filename(bracket_index, Pad(n) \o tail, <<"l", "1">>)
                dest_path == dest_path_of(kind, destination_folder, name)
            IN  /\ util_call' = [fn |-> "upload_enhanced", storage_provider |-> kind,
                                 destination_folder |-> destination_folder,
                                 bracket_index |-> bracket_index,
                                 filename_prefix |-> Pad(n) \o tail,
                                 listing_id |-> <<"l", "1">>]
                /\ util_result' = <<[enhanced_filename |-> name, dest_path |-> dest_path,
                                     parsed |-> parse_remote_path(dest_path)]>>
    /\ UNCHANGED <<disc_vars, fin_vars, gw_vars, cred_vars, notifier_vars, ext_vars>>

SpecDestination == AllIdle /\ [][call_upload_enhanced]_vars

\* C35: for Google Drive the destination handed to upload_file is exactly
\* "<folder_id>/<filename>", the folder id the provider parses from it is the
\* configured destination folder id, and the filename is
\* "<bracket_index + 1>_<sanitized prefix, or the listing id>.jpg".
C35_DriveDestinationExact ==
    util_call.fn = "upload_enhanced" /\ util_call.storage_provider = "google_drive" =>
        LET r == util_result[1]
            sanitized == sanitize_filename_prefix(util_call.filename_prefix)
        IN  /\ r.dest_path = util_call.destination_folder \o <<"/">> \o r.enhanced_filename
            /\ r.parsed.folder_id = util_call.destination_folder
            /\ r.parsed.filename = r.enhanced_filename
            /\ r.enhanced_filename =
                   <<str_digit(util_call.bracket_index + 1), "_">>
                       \o (IF sanitized # <<>> THEN sanitized ELSE util_call.listing_id)
                       \o <<".", "j", "p", "g">>

(***************************************************************************)
(* Dropbox provider, upload (lib/shared/providers/storage/                  *)
(* dropbox_provider.py).  A content is its length; content[a:b] is the      *)
(* range of its bytes from a up to, not including, b.                       *)
(***************************************************************************)
MaxChunks == 3

UPLOAD_CHUNK_SIZE == 8 * 1024 * 1024

\* min(a, b)
min_of(a, b) == IF a < b THEN a ELSE b

\* one call of the Dropbox client: the bytes it carries, the offset of the
\* cursor, and the path and write mode of a commit
ClientCall(api, from, to, cursor_offset, path, mode) ==
    [api |-> api, chunk |-> [from |-> from, to |-> to], cursor_offset |-> cursor_offset,
     path |-> path, mode |-> mode]

\* variant: content of exactly the chunk size goes through a session
simple_upload_below(file_size) == file_size < UPLOAD_CHUNK_SIZE

\* upload_file, "if file_size <= UPLOAD_CHUNK_SIZE"
simple_upload(file_size) == file_size <= UPLOAD_CHUNK_SIZE

\* _chunked_upload, "while offset < file_size": the calls made from offset on
RECURSIVE upload_chunks(_, _, _, _)
upload_chunks(file_size, offset, remote_path, mode) ==
    IF ~ (offset < file_size) THEN <<>>
    ELSE LET chunk_end == min_of(offset + UPLOAD_CHUNK_SIZE, file_size)
         IN  IF chunk_end < file_size
             THEN <<ClientCall("files_upload_session_append_v2", offset, chunk_end, offset,
                               <<>>, "")>>
                      \o upload_chunks(file_size, chunk_end, remote_path, mode)
             ELSE <<ClientCall("files_upload_session_finish", offset, chunk_end, offset,
                               remote_path, mode)>>

\* _chunked_upload: the session is started with content[:UPLOAD_CHUNK_SIZE]
chunked_upload(file_size, remote_path, mode) ==
    <<ClientCall("files_upload_session_start", 0, min_of(UPLOAD_CHUNK_SIZE, file_size), -1,
                 <<>>, "")>>
        \o upload_chunks(file_size, UPLOAD_CHUNK_SIZE, remote_path, mode)

\* upload_file: the calls an upload makes when none of them fails
upload_file_calls(remote_path, file_size, overwrite) ==
    LET normalized_path == normalize_dropbox_path(remote_path)
        mode == IF overwrite THEN "overwrite" ELSE "add"
    IN  IF simple_upload(file_size)
        THEN <<ClientCall("files_upload", 0, file_size, -1, normalized_path, mode)>>
        ELSE chunked_upload(file_size, normalized_path, mode)

\* lengths at and next to every multiple of the chunk size
ContentSizes ==
    {n \in {k * UPLOAD_CHUNK_SIZE + d : k \in 0..MaxChunks, d \in {-1, 0, 1}} : n >= 0}

RemotePaths == {<<"/", "a", "/", "A">>, <<"a", "\\", "A">>}

\* one call of DropboxProvider.upload_file: the provider is not connected,
\* every call of the client succeeds and True is returned, or one call
\* raises ApiError and the upload raises IOError
call_upload_file ==
    /\ util_call = NoCall
    /\ \E remote_path \in RemotePaths, file_size \in ContentSizes, overwrite \in BOOLEAN,
          connected \in BOOLEAN :
         LET calls == upload_file_calls(remote_path, file_size, overwrite)
         IN  /\ util_call' = [fn |-> "upload_file", remote_path |-> remote_path,
                              file_size |-> file_size, overwrite |-> overwrite,
                              connected |-> connected]
             /\ IF ~ connected
                THEN util_result' = <<[outcome |-> "ConnectionError", calls |-> <<>>]>>
                ELSE \/ util_result' = <<[outcome |-> "True", calls |-> calls]>>
                     \/ \E failed \in 1..Len(calls) :
                          util_result' = <<[outcome |-> "IOError",
                                            calls |-> SubSeq(calls, 1, failed)]>>
    /\ UNCHANGED <<disc_vars, fin_vars, gw_vars, cred_vars, notifier_vars, ext_vars>>

SpecUpload == AllIdle /\ [][call_upload_file]_vars

\* the calls of a session carry consecutive ranges of the content starting
\* at byte 0, and each append and finish has its cursor at the number of
\* bytes already sent
SessionInOrder(calls) ==
    \A i \in 1..Len(calls) :
        /\ calls[i].chunk.from = IF i = 1 THEN 0 ELSE calls[i - 1].chunk.to
        /\ calls[i].chunk.from < calls[i].chunk.to
        /\ i = 1 <=> calls[i].api = "files_upload_session_start"
        /\ i > 1 => /\ calls[i].cursor_offset = calls[i - 1].chunk.to
                    /\ calls[i].api \in {"files_upload_session_append_v2",
                                         "files_upload_session_finish"}
        /\ calls[i].api # "files_upload_session_finish" =>
               calls[i].chunk.to - calls[i].chunk.from = UPLOAD_CHUNK_SIZE
        /\ calls[i].api = "files_upload_session_finish" => i = Len(calls)

\* C33: content longer than 8 MiB is uploaded in one session, a start with
\* the first 8 MiB, appends of 8 MiB and one finish with the last chunk, the
\* destination and the write mode; the chunks in call order are the content,
\* and each cursor offset is the number of bytes already sent.  Content of
\* at most 8 MiB is uploaded in one files_upload call.
C33_OneSessionPerLargeUpload ==
    util_call.fn = "upload_file" /\ util_call.connected =>
        LET calls == util_result[1].calls
            last == calls[Len(calls)]
        IN  IF util_call.file_size > UPLOAD_CHUNK_SIZE
            THEN /\ SessionInOrder(calls)
                 /\ util_result[1].outcome = "True" =>
                        /\ last.api = "files_upload_session_finish"
                        /\ last.chunk.to = util_call.file_size
                        /\ last.path = normalize_dropbox_path(util_call.remote_path)
                        /\ last.mode = IF util_call.overwrite THEN "overwrite" ELSE "add"
            ELSE /\ Len(calls) = 1
                 /\ calls[1].api = "files_upload"
                 /\ calls[1].chunk = [from |-> 0, to |-> util_call.file_size]
                 /\ calls[1].path = normalize_dropbox_path(util_call.remote_path)

\* an upload of three chunks and one byte returned True: a start, two
\* appends and a finish that carries the last byte
C33_Witness ==
    /\ util_call.fn = "upload_file"
    /\ util_call.file_size = 3 * UPLOAD_CHUNK_SIZE + 1
    /\ util_result[1].outcome = "True"
    /\ Len(util_result[1].calls) = 4
    /\ util_result[1].calls[3].api = "files_upload_session_append_v2"
    /\ util_result[1].calls[4].chunk = [from |-> 3 * UPLOAD_CHUNK_SIZE,
                                        to |-> 3 * UPLOAD_CHUNK_SIZE + 1]

(***************************************************************************)
(* AutoHDR provider, upload_batch (lib/shared/providers/enhancement/        *)
(* autohdr_provider.py)                                                     *)
(***************************************************************************)
MaxBatch == 2

\* one HTTP request of the provider
Request(api, url, filename) == [api |-> api, url |-> url, filename |-> filename]

\* the files of a batch and the presigned URLs of an answer
BatchFiles == {[k \in 1..n |-> <<"file", k>>] : n \in 0..MaxBatch}
PresignedUrlLists ==
    {[k \in 1..n |-> <<"url", k>>] : n \in 0..(MaxBatch + 1)}
        \cup {[k \in 1..n |-> <<"url", n + 1 - k>>] : n \in 2..(MaxBatch + 1)}

\* the answers to the creation request: it raises, or has a status and a
\* list of presigned URLs
CreationAnswers ==
    {[raised |-> TRUE, status_code |-> 0, uploaded_files |-> <<>>]}
        \cup {[raised |-> FALSE, status_code |-> c, uploaded_files |-> us] :
                 c \in {200, 201, 500}, us \in PresignedUrlLists}

\* the answers to the PUTs of a batch, one per position: a status, or 0 for
\* a PUT that raises
PutAnswers == [1..(MaxBatch + 1) -> {200, 403, 0}]

\* variant: only too few URLs are a mismatch
url_count_short(presigned_urls, images) == Len(presigned_urls) < Len(images)

\* upload_batch, "if len(presigned_urls) != len(images)"
url_count_mismatch(presigned_urls, images) == Len(presigned_urls) # Len(images)

\* upload_batch, step 2: "for ... in enumerate(zip(images, presigned_urls), 1)",
\* the PUT of each file to the URL at its position
put_requests(images, presigned_urls) ==
    [i \in 1..min_of(Len(images), Len(presigned_urls)) |->
        Request("put", presigned_urls[i], images[i])]

\* finalize_photoshoot: without email nothing is sent, else one POST
finalize_photoshoot(has_email) ==
    IF ~ has_email THEN <<>> ELSE <<Request("finalize-photoshoot-upload", "", "")>>

\* upload_batch: the requests made and the result returned
upload_batch(images, has_email, auto_finalize, creation, puts) ==
    LET create == Request("create-photoshoot-with-presigned-urls", "", "")
        failure(requests_) == [requests |-> requests_, success |-> FALSE, failed_files |-> <<>>]
        IsFailedPut(r) == puts[CHOOSE i \in 1..Len(images) : images[i] = r.filename] \notin {200, 204}
        made == put_requests(images, creation.uploaded_files)
    IN  IF ~ has_email THEN failure(<<>>)
        ELSE IF creation.raised \/ creation.status_code \notin {200, 201}
        THEN failure(<<create>>)
        ELSE IF url_count_mismatch(creation.uploaded_files, images)
        THEN failure(<<create>>)
        ELSE LET failed_uploads == SelectSeq(made, IsFailedPut)
             IN  [requests |-> <<create>> \o made \o
                        (IF auto_finalize THEN finalize_photoshoot(has_email) ELSE <<>>),
                  success |-> failed_uploads = <<>>,
                  failed_files |-> [k \in 1..Len(failed_uploads) |-> failed_uploads[k].filename]]

\* one call of AutoHDRProvider.upload_batch
call_upload_batch ==
    /\ util_call = NoCall
    /\ \E images \in BatchFiles, has_email \in BOOLEAN, auto_finalize \in BOOLEAN,
          creation \in CreationAnswers, puts \in PutAnswers :
         /\ util_call' = [fn |-> "upload_batch", images |-> images, has_email |-> has_email,
                          auto_finalize |-> auto_finalize, creation |-> creation,
                          puts |-> puts]
         /\ util_result' = <<upload_batch(images, has_email, auto_finalize, creation, puts)>>
    /\ UNCHANGED <<disc_vars, fin_vars, gw_vars, cred_vars, notifier_vars, ext_vars>>

SpecBatch == AllIdle /\ [][call_upload_batch]_vars

\* the creation request succeeded with one presigned URL per file
CreationSucceeded(call) ==
    /\ ~ call.creation.raised
    /\ call.creation.status_code \in {200, 201}
    /\ Len(call.creation.uploaded_files) = Len(call.images)

\* C34: upload_batch sends the creation request first; only if it succeeded
\* with one presigned URL per file it then PUTs each file to the URL at the
\* file's position, and with auto_finalize sends one finalize request after the
\* last PUT; otherwise it makes no PUT and no finalize request and reports
\* failure.
C34_BatchStepsInOrder ==
    util_call.fn = "upload_batch" =>
        LET r == util_result[1]
            n == Len(util_call.images)
        IN  /\ r.requests # <<>> => r.requests[1].api = "create-photoshoot-with-presigned-urls"
            /\ \A i \in 2..Len(r.requests) :
                   r.requests[i].api # "create-photoshoot-with-presigned-urls"
            /\ IF util_call.has_email /\ CreationSucceeded(util_call)
               THEN /\ Len(r.requests) = 1 + n + (IF util_call.auto_finalize THEN 1 ELSE 0)
                    /\ \A i \in 1..n :
                           r.requests[1 + i] =
                               Request("put", util_call.creation.uploaded_files[i],
                                       util_call.images[i])
                    /\ util_call.auto_finalize =>
                           r.requests[n + 2].api = "finalize-photoshoot-upload"
               ELSE /\ \A i \in 1..Len(r.requests) :
                           r.requests[i].api \notin {"put", "finalize-photoshoot-upload"}
                    /\ ~ r.success

\* two files were put to the two URLs of the answer, given in reverse
\* order, the second PUT failed, and the finalize request followed
C34_Witness ==
    /\ util_call.fn = "upload_batch"
    /\ Len(util_call.images) = 2
    /\ util_call.creation.uploaded_files = <<<<"url", 2>>, <<"url", 1>>>>
    /\ Len(util_result[1].requests) = 4
    /\ util_result[1].requests[3] = Request("put", <<"url", 1>>, <<"file", 2>>)
    /\ util_result[1].requests[4].api = "finalize-photoshoot-upload"
    /\ util_result[1].failed_files = <<<<"file", 2>>>>

====
